---- MODULE Spec2Model ----
(***************************************************************************)
(* Sales closure back office (sushi-be): the FastAPI sales endpoints, the  *)
(* sales CRUD layer and the Sales model, as a state machine over the       *)
(* "sales" table.  Monetary amounts are Decimal values with two decimal    *)
(* places; they are modelled as integers counting cents.                   *)
(***************************************************************************)
EXTENDS Integers, FiniteSets, Sequences, TLC

VARIABLES
    sales,      \* the sales table: a set of rows (records with an id)
    nextId,     \* number of primary keys handed out so far (uuid4 never repeats)
    users,      \* the users table: set of [id, is_active, branch_id, deleted_at]
    admins,     \* the admins table: set of [id, is_active]
    branches,   \* the branches table: set of [id, name, deleted_at]
    reqs,       \* create requests in flight, one per server process
    resp,       \* the last HTTP response: [op, caller, status, rows]
    cierre_caja_data,  \* the 'Ventas' sheet of the Excel workbook: a sequence of rows
    user_data,      \* the 'Usuarios' sheet held in memory: a sequence of rows
    registro_data,  \* the 'Registro' sheet held in memory: a sequence of rows
    time_entries,   \* the time_entries table: set of [id, user_id, entry_type, timestamp]
    utcnow          \* the server's clock, read by datetime.utcnow()

vars ==
    <<sales, nextId, users, admins, branches, reqs, resp, cierre_caja_data, user_data,
      registro_data, time_entries, utcnow>>

\* The tables of the attendance checker, and the time clock.
excel_vars == <<user_data, registro_data>>
clock_vars == <<time_entries, utcnow>>

-----------------------------------------------------------------------------
(* Bounds of the model *)

\* Number of sales rows that can be created in one behaviour.
MaxSales == 2

\* Python's None for an optional UUID / integer filter or field.
None == 0

SaleIds == 1..MaxSales

\* The rows of users / admins / branches present in the database.
UserIds == {1, 2}
AdminIds == {100}
BranchIds == {1, 2}
\* An id that names no row of any table.
MissingId ==
    CHOOSE i \in 1..(MaxSales + 3) :
        i \notin SaleIds \cup UserIds \cup AdminIds \cup BranchIds

ReviewStates == {"pending", "approved", "rejected"}

-----------------------------------------------------------------------------
(* Sales model: src/backend/fastapi/models/sales.py *)

RawFields == {"payments_nbr", "sales_total", "card_itpv", "card_refund",
              "card_kiwi", "transfer_amt", "cash_amt", "cash_refund",
              "kiwi_fee_total"}

KeyFields == {"worker_id", "branch_id", "closure_date", "closure_number"}

DerivedFields == {"card_total", "cash_total", "discrepancy", "avg_sale",
                  "card_kiwi_minus_fee", "revenue_total"}

\* A Decimal quotient stored in a Numeric(10, 2) column: the database rounds
\* it to two places, half away from zero.  num is in cents, den a count.
NumericScale2(num, den) ==
    IF num >= 0 THEN (2 * num + den) \div (2 * den)
                ELSE 0 - ((2 * (0 - num) + den) \div (2 * den))

\* Sales.calculate_totals as a variant that divides by one payment when none
\* was counted.
calculate_totals_one_payment(s) ==
    LET card_total == s.card_itpv + s.card_kiwi + s.transfer_amt - s.card_refund
        cash_total == s.cash_amt - s.cash_refund
        payment_total == card_total + cash_total
    IN  [s EXCEPT
            !.card_total = card_total,
            !.cash_total = cash_total,
            !.discrepancy = payment_total - s.sales_total,
            !.avg_sale = IF s.payments_nbr > 0
                            THEN NumericScale2(s.sales_total, s.payments_nbr)
                            ELSE s.sales_total,
            !.card_kiwi_minus_fee = s.card_kiwi - s.kiwi_fee_total,
            !.revenue_total = s.sales_total - s.kiwi_fee_total]

\* Sales.calculate_totals
calculate_totals(s) ==
    LET card_total == s.card_itpv + s.card_kiwi + s.transfer_amt - s.card_refund
        cash_total == s.cash_amt - s.cash_refund
        payment_total == card_total + cash_total
    IN  [s EXCEPT
            !.card_total = card_total,
            !.cash_total = cash_total,
            !.discrepancy = payment_total - s.sales_total,
            !.avg_sale = IF s.payments_nbr > 0
                            THEN NumericScale2(s.sales_total, s.payments_nbr)
                            ELSE 0,
            !.card_kiwi_minus_fee = s.card_kiwi - s.kiwi_fee_total,
            !.revenue_total = s.sales_total - s.kiwi_fee_total]

\* @validates('card_itpv', 'card_refund', 'card_kiwi', 'transfer_amt')
validate_card_amounts(d) ==
    \A f \in {"card_itpv", "card_refund", "card_kiwi", "transfer_amt"} \cap DOMAIN d :
        d[f] >= 0

\* @validates('cash_amt', 'cash_refund')
validate_cash_amounts(d) ==
    \A f \in {"cash_amt", "cash_refund"} \cap DOMAIN d : d[f] >= 0

\* @validates('payments_nbr')
validate_payments_number(d) ==
    "payments_nbr" \in DOMAIN d => d.payments_nbr >= 0

-----------------------------------------------------------------------------
(* Request schemas: src/backend/fastapi/schemas/sales.py *)

\* The fields of SalesBase / SalesUpdate declared with ge=0.
GeZeroFields == {"payments_nbr", "card_itpv", "card_refund", "card_kiwi",
                 "transfer_amt", "cash_amt", "cash_refund", "kiwi_fee_total"}

\* SalesCreate: every field required; closure_number ge=1; ge=0 on the fields
\* above.  sales_total carries no ge constraint.
SalesCreate(d) ==
    /\ d.closure_number >= 1
    /\ \A f \in GeZeroFields : d[f] >= 0

\* SalesUpdate: every field optional; the same constraints on the fields sent.
SalesUpdate(u) ==
    /\ "closure_number" \in DOMAIN u => u.closure_number >= 1
    /\ \A f \in GeZeroFields \cap DOMAIN u : u[f] >= 0

\* The fields a SalesCreate / SalesUpdate body declares.  Pydantic drops every
\* other key of the JSON body (no `extra` setting: the default is to ignore).
SalesFields == KeyFields \cup RawFields

\* The request body as a variant that keeps the undeclared keys.
model_dump_extra(body) == body

\* The request body as the handler receives it: the declared fields only.
model_dump(body) == [f \in SalesFields \cap DOMAIN body |-> body[f]]

-----------------------------------------------------------------------------
(* Authentication dependencies: src/backend/security/dependencies.py *)

\* A verified access token carries the subject id and the role claim.
Token(sub, role) == [sub |-> sub, role |-> role]

\* get_current_admin: [status |-> 0, principal |-> <Admin>] or an HTTP error.
get_current_admin(token) ==
    IF token.role # "admin" THEN [status |-> 403, principal |-> [tag |-> "none"]]
    ELSE IF ~\E a \in admins : a.id = token.sub
        THEN [status |-> 401, principal |-> [tag |-> "none"]]
    ELSE IF ~\E a \in admins : a.id = token.sub /\ a.is_active
        THEN [status |-> 403, principal |-> [tag |-> "none"]]
    ELSE [status |-> 0, principal |-> [tag |-> "Admin", id |-> token.sub]]

\* get_current_admin_or_user: returns the TUPLE (user_instance, role).
get_current_admin_or_user(token) ==
    IF token.role = "admin" THEN
        IF \E a \in admins : a.id = token.sub /\ a.is_active
            THEN [status |-> 0,
                  principal |-> [tag |-> "tuple", id |-> token.sub, role |-> "admin"]]
            ELSE [status |-> 401, principal |-> [tag |-> "none"]]
    ELSE IF token.role = "user" THEN
        IF \E u \in users : u.id = token.sub /\ u.is_active
            THEN [status |-> 0,
                  principal |-> [tag |-> "tuple", id |-> token.sub, role |-> "user"]]
            ELSE [status |-> 401, principal |-> [tag |-> "none"]]
    ELSE [status |-> 403, principal |-> [tag |-> "none"]]

\* get_current_user (RequireActiveUser): the row is looked up by id alone.
get_current_user(token) ==
    IF token.sub = None THEN [status |-> 401, principal |-> [tag |-> "none"]]
    ELSE IF token.role # "user" THEN [status |-> 403, principal |-> [tag |-> "none"]]
    ELSE IF ~\E u \in users : u.id = token.sub
        THEN [status |-> 401, principal |-> [tag |-> "none"]]
    ELSE IF ~\E u \in users : u.id = token.sub /\ u.is_active
        THEN [status |-> 403, principal |-> [tag |-> "none"]]
    ELSE [status |-> 0, principal |-> [tag |-> "User", id |-> token.sub]]

\* isinstance(current_user, User) on the value the dependency injected.
IsInstanceUser(current_user) == current_user.tag = "User"

-----------------------------------------------------------------------------
(* Sales CRUD: src/backend/fastapi/crud/sales.py *)

\* The primary keys of the rows of a table.
Ids(table) == {r.id : r \in table}

\* Optional attribute of a request body: None when the field was not sent.
Get(u, f) == IF f \in DOMAIN u THEN u[f] ELSE None

\* Python's `a or b`.
Or(a, b) == IF a # None THEN a ELSE b

\* get_sales: the row with this primary key, as a set (empty: None).
get_sales(store, sales_id) == {s \in store : s.id = sales_id}

\* create_sales: the duplicate-closure query (lines 52-63).
create_existing_closure(store, d) ==
    {s \in store : /\ s.closure_date = d.closure_date
                   /\ s.closure_number = d.closure_number
                   /\ s.branch_id = d.branch_id}

\* create_sales checks as a variant without the duplicate-closure query.
create_sales_check_nodup(store, d) ==
    IF ~\E u \in users : u.id = d.worker_id THEN 404
    ELSE IF d.branch_id \notin Ids(branches) THEN 404
    ELSE 0

\* create_sales checks as a variant that does not look the branch up.
create_sales_check_nobranch(store, d) ==
    IF ~\E u \in users : u.id = d.worker_id THEN 404
    ELSE IF {s \in store : /\ s.closure_date = d.closure_date
                           /\ s.closure_number = d.closure_number
                           /\ s.branch_id = d.branch_id} # {} THEN 409
    ELSE 0

\* create_sales: the checks before the insert (lines 36-69); 0 when they pass.
create_sales_check(store, d) ==
    IF ~\E u \in users : u.id = d.worker_id THEN 404
    ELSE IF d.branch_id \notin Ids(branches) THEN 404
    ELSE IF create_existing_closure(store, d) # {} THEN 409
    ELSE 0

\* create_sales: the row built and inserted (lines 71-96).  review_state is
\* not passed: the column default of the migration applies.
create_sales_row(id, d) ==
    calculate_totals(
        [id |-> id,
         worker_id |-> d.worker_id, branch_id |-> d.branch_id,
         closure_date |-> d.closure_date, closure_number |-> d.closure_number,
         payments_nbr |-> d.payments_nbr, sales_total |-> d.sales_total,
         card_itpv |-> d.card_itpv, card_refund |-> d.card_refund,
         card_kiwi |-> d.card_kiwi, transfer_amt |-> d.transfer_amt,
         cash_amt |-> d.cash_amt, cash_refund |-> d.cash_refund,
         kiwi_fee_total |-> d.kiwi_fee_total,
         card_total |-> 0, cash_total |-> 0, discrepancy |-> 0, avg_sale |-> 0,
         card_kiwi_minus_fee |-> 0, revenue_total |-> 0,
         review_state |-> "pending"])

\* update_sales, duplicate query, as a variant that compares only the values
\* sent in the request (no fall-back to the stored row).
update_existing_closure_sent(store, row, u) ==
    {s \in store : /\ s.closure_date = Get(u, "closure_date")
                   /\ s.closure_number = Get(u, "closure_number")
                   /\ s.branch_id = Get(u, "branch_id")
                   /\ s.id # row.id}

\* update_sales: the duplicate-closure query (lines 276-293).
update_existing_closure(store, row, u) ==
    IF Get(u, "closure_number") # None \/ Get(u, "closure_date") # None
         \/ Get(u, "branch_id") # None
    THEN LET new_closure_date == Or(Get(u, "closure_date"), row.closure_date)
             new_closure_number == Or(Get(u, "closure_number"), row.closure_number)
             new_branch_id == Or(Get(u, "branch_id"), row.branch_id)
         IN  {s \in store : /\ s.closure_date = new_closure_date
                            /\ s.closure_number = new_closure_number
                            /\ s.branch_id = new_branch_id
                            /\ s.id # row.id}
    ELSE {}

\* update_sales: the checks on an existing row (lines 258-299); 0 when they pass.
update_sales_check(store, row, u) ==
    IF Get(u, "worker_id") # None /\ ~\E w \in users : w.id = u.worker_id THEN 404
    ELSE IF Get(u, "branch_id") # None /\ u.branch_id \notin Ids(branches) THEN 404
    ELSE IF update_existing_closure(store, row, u) # {} THEN 409
    ELSE 0

\* update_sales, field assignment, as a variant that also resets the review.
update_sales_row_reset(row, u) ==
    calculate_totals(
        [f \in DOMAIN row |->
            IF f = "review_state" THEN "pending"
            ELSE IF f \in DOMAIN u THEN u[f] ELSE row[f]])

\* update_sales: setattr for every field sent, then calculate_totals
\* (lines 301-307).
update_sales_row(row, u) ==
    calculate_totals([f \in DOMAIN row |-> IF f \in DOMAIN u THEN u[f] ELSE row[f]])

\* update_sales_review_status: set the review state of a row.
update_sales_review_status(row, review_state) ==
    [row EXCEPT !.review_state = review_state]

-----------------------------------------------------------------------------
(* Read side of the CRUD layer and of the endpoints *)

\* get_sales_records: the rows selected by the worker and branch filters
\* (`if worker_id:` / `if branch_id:` skip a filter that is None).
get_sales_records(store, worker_id, branch_id) ==
    {s \in store : /\ (worker_id # None => s.worker_id = worker_id)
                   /\ (branch_id # None => s.branch_id = branch_id)}

\* list_sales_records: the rows in the response body.
list_sales_records(token) ==
    LET auth == get_current_admin_or_user(token)
        worker_id == IF IsInstanceUser(auth.principal) THEN auth.principal.id ELSE None
    IN  IF auth.status # 0 THEN [status |-> auth.status, rows |-> {}]
        ELSE [status |-> 200, rows |-> get_sales_records(sales, worker_id, None)]

\* search_sales_records: the rows in the response body.
search_sales_records(token, worker, branch) ==
    LET auth == get_current_admin_or_user(token)
        worker_id == IF IsInstanceUser(auth.principal) THEN auth.principal.id ELSE worker
    IN  IF auth.status # 0 THEN [status |-> auth.status, rows |-> {}]
        ELSE [status |-> 200, rows |-> get_sales_records(sales, worker_id, branch)]

\* get_sales_record: the row in the response body.
get_sales_record(token, sales_id) ==
    LET auth == get_current_admin_or_user(token)
        found == get_sales(sales, sales_id)
    IN  IF auth.status # 0 THEN [status |-> auth.status, rows |-> {}]
        ELSE IF found = {} THEN [status |-> 404, rows |-> {}]
        ELSE IF IsInstanceUser(auth.principal)
                /\ \E s \in found : s.worker_id # auth.principal.id
            THEN [status |-> 403, rows |-> {}]
        ELSE [status |-> 200, rows |-> found]

\* get_sales_summary without dates: the rows summed into the response.
get_sales_summary(token, branch) ==
    LET auth == get_current_admin_or_user(token)
        is_user == IsInstanceUser(auth.principal)
        worker_id == IF is_user THEN auth.principal.id ELSE None
        branch_id == IF is_user THEN None ELSE branch
    IN  IF auth.status # 0 THEN [status |-> auth.status, rows |-> {}]
        ELSE [status |-> 200, rows |-> get_sales_records(sales, worker_id, branch_id)]

-----------------------------------------------------------------------------
(* Filters and ORDER BY of get_sales_records *)

Abs(x) == IF x < 0 THEN 0 - x ELSE x

\* The tolerance 0.01 of the discrepancy filters, in cents.
DiscrepancyThreshold == 1

\* Sales.has_discrepancy
has_discrepancy(s) == Abs(s.discrepancy) > DiscrepancyThreshold

\* The WHERE clause as a variant whose discrepancy filters take 0.01 as flagged.
get_sales_records_where_inclusive(store, q) ==
    {s \in store :
        /\ (q.worker_id # None => s.worker_id = q.worker_id)
        /\ (q.branch_id # None => s.branch_id = q.branch_id)
        /\ (q.start_date # None => s.closure_date >= q.start_date)
        /\ (q.end_date # None => s.closure_date <= q.end_date)
        /\ (q.closure_number # None => s.closure_number = q.closure_number)
        /\ (q.has_discrepancy = "True" => Abs(s.discrepancy) >= DiscrepancyThreshold)
        /\ (q.has_discrepancy = "False" => Abs(s.discrepancy) < DiscrepancyThreshold)}

\* get_sales_records: the WHERE clause (lines 153-173).  q holds the filter
\* arguments; has_discrepancy is "None", "True" or "False".
get_sales_records_where(store, q) ==
    {s \in store :
        /\ (q.worker_id # None => s.worker_id = q.worker_id)
        /\ (q.branch_id # None => s.branch_id = q.branch_id)
        /\ (q.start_date # None => s.closure_date >= q.start_date)
        /\ (q.end_date # None => s.closure_date <= q.end_date)
        /\ (q.closure_number # None => s.closure_number = q.closure_number)
        /\ (q.has_discrepancy = "True" => Abs(s.discrepancy) > DiscrepancyThreshold)
        /\ (q.has_discrepancy = "False" => Abs(s.discrepancy) <= DiscrepancyThreshold)}

\* get_sales_records: the ORDER BY clause (lines 175-187); a comes strictly
\* before b.  Rows the clause does not separate come in an order the database
\* chooses.
order_by_before(a, b, order_by) ==
    IF order_by = "date_asc" THEN
        \/ a.closure_date < b.closure_date
        \/ a.closure_date = b.closure_date /\ a.closure_number < b.closure_number
    ELSE IF order_by = "sales_desc" THEN a.sales_total > b.sales_total
    ELSE IF order_by = "sales_asc" THEN a.sales_total < b.sales_total
    ELSE IF order_by = "discrepancy_desc" THEN Abs(a.discrepancy) > Abs(b.discrepancy)
    ELSE \/ a.closure_date > b.closure_date
         \/ a.closure_date = b.closure_date /\ a.closure_number > b.closure_number

\* The rows of a query in the order the database returns them: by the ORDER BY
\* clause, and among rows it leaves tied by the order of the scan (scan[id] is
\* the position of the row in the scan the database happens to make).
order_by_rows(rows, order_by, scan) ==
    LET before(a, b) ==
            \/ order_by_before(a, b, order_by)
            \/ ~order_by_before(b, a, order_by) /\ scan[a.id] < scan[b.id]
        rank == [x \in rows |-> Cardinality({y \in rows : before(y, x)})]
    IN  [i \in 1..Cardinality(rows) |-> CHOOSE x \in rows : rank[x] = i - 1]

\* The set of the elements of a sequence.
Range(seq) == {seq[i] : i \in 1..Len(seq)}

\* Query.limit(n)
limit(seq, n) == IF Len(seq) <= n THEN seq ELSE SubSeq(seq, 1, n)

\* search_sales_records with the filters and order_by of the request: the
\* list of rows in the response body.
search_sales_records_query(token, q, order_by, scan) ==
    LET auth == get_current_admin_or_user(token)
        worker_id == IF IsInstanceUser(auth.principal) THEN auth.principal.id ELSE q.worker_id
        where == [q EXCEPT !.worker_id = worker_id]
    IN  IF auth.status # 0 THEN [status |-> auth.status, rows |-> <<>>]
        ELSE IF q.start_date # None /\ q.end_date # None /\ q.start_date > q.end_date
            THEN [status |-> 400, rows |-> <<>>]
        ELSE [status |-> 200,
              rows |-> order_by_rows(get_sales_records_where(sales, where), order_by, scan)]

-----------------------------------------------------------------------------
(* Reports: src/backend/fastapi/crud/sales.py *)

\* func.sum over a column of a set of rows (0 for `None or Decimal("0")`).
RECURSIVE Sum(_, _)
Sum(rows, f) ==
    IF rows = {} THEN 0
    ELSE LET x == CHOOSE x \in rows : TRUE IN x[f] + Sum(rows \ {x}, f)

\* A Decimal quotient num / den, kept as the fraction; den = 0 stands for the
\* exception Python raises on a division by zero.
Divide(num, den) == [num |-> num, den |-> den]

\* Decimal("0")
Zero == Divide(0, 1)

\* The number of records get_discrepancy_report returns at most.
DiscrepancyReportLimit == 50

\* get_discrepancy_report: the rows of the base query (lines 520-533).
\* `if min_discrepancy:` skips the filter for None and for 0.
get_discrepancy_report_where(store, q) ==
    {s \in store :
        /\ Abs(s.discrepancy) > DiscrepancyThreshold
        /\ (q.start_date # None => s.closure_date >= q.start_date)
        /\ (q.end_date # None => s.closure_date <= q.end_date)
        /\ (q.branch_id # None => s.branch_id = q.branch_id)
        /\ (q.min_discrepancy # None => Abs(s.discrepancy) >= q.min_discrepancy)}

\* get_discrepancy_report as a variant whose record list is cut from the scan
\* without the ORDER BY clause.
get_discrepancy_report_unsorted(store, q, scan) ==
    LET rows == get_discrepancy_report_where(store, q)
        magnitudes == {Abs(s.discrepancy) : s \in rows}
        sum_abs == Sum({[id |-> s.id, a |-> Abs(s.discrepancy)] : s \in rows}, "a")
    IN  [total_discrepancies |-> Cardinality(rows),
         total_discrepancy_amount |-> Sum(rows, "discrepancy"),
         largest_discrepancy |->
            IF rows = {} THEN 0
            ELSE CHOOSE m \in magnitudes : \A k \in magnitudes : k <= m,
         average_discrepancy |->
            IF rows = {} THEN Zero ELSE Divide(sum_abs, Cardinality(rows)),
         discrepancy_records |->
            limit(order_by_rows(rows, "none", scan), DiscrepancyReportLimit)]

\* get_discrepancy_report
get_discrepancy_report(store, q, scan) ==
    LET rows == get_discrepancy_report_where(store, q)
        magnitudes == {Abs(s.discrepancy) : s \in rows}
        sum_abs == Sum({[id |-> s.id, a |-> Abs(s.discrepancy)] : s \in rows}, "a")
    IN  [total_discrepancies |-> Cardinality(rows),
         total_discrepancy_amount |-> Sum(rows, "discrepancy"),
         largest_discrepancy |->
            IF rows = {} THEN 0
            ELSE CHOOSE m \in magnitudes : \A k \in magnitudes : k <= m,
         average_discrepancy |->
            IF rows = {} THEN Zero ELSE Divide(sum_abs, Cardinality(rows)),
         discrepancy_records |->
            limit(order_by_rows(rows, "discrepancy_desc", scan), DiscrepancyReportLimit)]

\* str(Decimal): the sign, the digits before the point and the two after it.
DecimalStr(cents) ==
    [negative |-> cents < 0, units |-> Abs(cents) \div 100, hundredths |-> Abs(cents) % 100]

\* get_sales_period_summary: the rows of the base query (lines 356-368).
get_sales_period_where(store, start_date, end_date, branch_id, worker_id) ==
    {s \in store :
        /\ s.closure_date >= start_date
        /\ s.closure_date <= end_date
        /\ (branch_id # None => s.branch_id = branch_id)
        /\ (worker_id # None => s.worker_id = worker_id)}

\* The summary as a variant that divides whenever there were sales.
get_sales_period_summary_sales(store, start_date, end_date, branch_id, worker_id) ==
    LET rows == get_sales_period_where(store, start_date, end_date, branch_id, worker_id)
        total_sales == Sum(rows, "sales_total")
        total_card == Sum(rows, "card_total")
        total_cash == Sum(rows, "cash_total")
        total_payments_amt == total_card + total_cash
        total_payments == Sum(rows, "payments_nbr")
    IN  [total_sales |-> total_sales,
         total_payments |-> total_payments,
         total_discrepancy |-> Sum(rows, "discrepancy"),
         average_sale |->
            IF total_sales > 0 THEN Divide(total_sales, total_payments) ELSE Zero,
         total_revenue |-> Sum(rows, "revenue_total"),
         total_fees |-> Sum(rows, "kiwi_fee_total"),
         card_percentage |->
            IF total_payments_amt > 0 THEN Divide(total_card * 100, total_payments_amt)
                                      ELSE Zero,
         cash_percentage |->
            IF total_payments_amt > 0 THEN Divide(total_cash * 100, total_payments_amt)
                                      ELSE Zero]

\* get_sales_period_summary
get_sales_period_summary(store, start_date, end_date, branch_id, worker_id) ==
    LET rows == get_sales_period_where(store, start_date, end_date, branch_id, worker_id)
        total_sales == Sum(rows, "sales_total")
        total_card == Sum(rows, "card_total")
        total_cash == Sum(rows, "cash_total")
        total_payments_amt == total_card + total_cash
        total_payments == Sum(rows, "payments_nbr")
    IN  [total_sales |-> total_sales,
         total_payments |-> total_payments,
         total_discrepancy |-> Sum(rows, "discrepancy"),
         average_sale |->
            IF total_payments > 0 THEN Divide(total_sales, total_payments) ELSE Zero,
         total_revenue |-> Sum(rows, "revenue_total"),
         total_fees |-> Sum(rows, "kiwi_fee_total"),
         card_percentage |->
            IF total_payments_amt > 0 THEN Divide(total_card * 100, total_payments_amt)
                                      ELSE Zero,
         cash_percentage |->
            IF total_payments_amt > 0 THEN Divide(total_cash * 100, total_payments_amt)
                                      ELSE Zero]

\* The breakdown by branch as a variant that groups the closures of every date.
by_branch_all_dates(store, start_date, end_date, branch_id) ==
    IF branch_id # None THEN [b \in {} |-> DecimalStr(0)]
    ELSE LET joined == {s \in store : s.branch_id \in Ids(branches)}
         IN  [b \in {s.branch_id : s \in joined} |->
                DecimalStr(Sum({s \in joined : s.branch_id = b}, "sales_total"))]

\* get_sales_period_report: the breakdown by branch (lines 440-454).  Branch
\* names are unique, so a branch's name stands for its id.
by_branch(store, start_date, end_date, branch_id) ==
    IF branch_id # None THEN [b \in {} |-> DecimalStr(0)]
    ELSE LET base == get_sales_period_where(store, start_date, end_date, branch_id, None)
             joined == {s \in base : s.branch_id \in Ids(branches)}
         IN  [b \in {s.branch_id : s \in joined} |->
                DecimalStr(Sum({s \in joined : s.branch_id = b}, "sales_total"))]

\* get_sales_period_report: the breakdown by worker (lines 456-469).
by_worker(store, start_date, end_date, branch_id) ==
    LET base == get_sales_period_where(store, start_date, end_date, branch_id, None)
        joined == {s \in base : \E u \in users : u.id = s.worker_id}
    IN  [w \in {s.worker_id : s \in joined} |->
            DecimalStr(Sum({s \in joined : s.worker_id = w}, "sales_total"))]

\* get_sales_period_report: the totals per day (lines 471-488), by date.
daily_totals(store, start_date, end_date, branch_id) ==
    LET base == get_sales_period_where(store, start_date, end_date, branch_id, None)
    IN  [d \in {s.closure_date : s \in base} |->
            DecimalStr(Sum({s \in base : s.closure_date = d}, "sales_total"))]

\* get_sales_period_report
get_sales_period_report(store, start_date, end_date, branch_id) ==
    [start_date |-> start_date,
     end_date |-> end_date,
     summary |-> get_sales_period_summary(store, start_date, end_date, branch_id, None),
     by_branch |-> by_branch(store, start_date, end_date, branch_id),
     by_worker |-> by_worker(store, start_date, end_date, branch_id),
     daily_totals |-> daily_totals(store, start_date, end_date, branch_id)]

\* A summary holds a quotient whose division raised.
DivisionError(summary) ==
    \/ summary.average_sale.den = 0
    \/ summary.card_percentage.den = 0
    \/ summary.cash_percentage.den = 0

\* The number of recent records get_sales_summary sums when no period is given.
SummaryLimit == 50

\* get_sales_summary: the summary in the response body, for a request with or
\* without a period (lines 582-631).
get_sales_summary_data(token, q, scan) ==
    LET auth == get_current_admin_or_user(token)
        is_user == IsInstanceUser(auth.principal)
        worker_id == IF is_user THEN auth.principal.id ELSE None
        branch_id == IF is_user THEN None ELSE q.branch_id
        recent_records ==
            Range(limit(order_by_rows(get_sales_records(sales, worker_id, branch_id),
                                      "date_desc", scan), SummaryLimit))
        total_sales == Sum(recent_records, "sales_total")
        total_payments == Sum(recent_records, "payments_nbr")
        summary_data ==
            IF q.start_date # None /\ q.end_date # None
            THEN get_sales_period_summary(sales, q.start_date, q.end_date, branch_id, worker_id)
            ELSE [total_sales |-> total_sales,
                  total_payments |-> total_payments,
                  total_discrepancy |-> Sum(recent_records, "discrepancy"),
                  average_sale |->
                    IF total_payments > 0 THEN Divide(total_sales, total_payments) ELSE Zero,
                  total_revenue |-> Sum(recent_records, "revenue_total"),
                  total_fees |-> Sum(recent_records, "kiwi_fee_total"),
                  card_percentage |-> Zero,
                  cash_percentage |-> Zero]
    IN  IF auth.status # 0 THEN [status |-> auth.status, body |-> {}]
        ELSE IF q.start_date # None /\ q.end_date # None /\ q.start_date > q.end_date
            THEN [status |-> 400, body |-> {}]
        ELSE IF DivisionError(summary_data) THEN [status |-> 500, body |-> {}]
        ELSE [status |-> 200, body |-> summary_data]

\* The body of a response together with the query string it answers.
Answer(request, body) == [request |-> request, body |-> body]

-----------------------------------------------------------------------------
(* State machine *)

Procs == {"p1", "p2"}

NoData == [closure_date |-> 0, closure_number |-> 0, branch_id |-> 0]

Idle == [pc |-> "idle", data |-> NoData, status |-> 0]

\* The users and branches in the database when the server starts: user i
\* works at branch i, and nothing is soft-deleted.
UsersTable ==
    {[id |-> i, is_active |-> TRUE, branch_id |-> i, deleted_at |-> None] : i \in UserIds}

BranchName(i) == IF i = 1 THEN "Centro" ELSE IF i = 2 THEN "Sur" ELSE "Norte"

BranchesTable ==
    {[id |-> i, name |-> BranchName(i), deleted_at |-> None] : i \in BranchIds}

\* The 'Usuarios' sheet as load_all_data reads it when the server starts.
UsersSheet ==
    <<[Usuario |-> "Ana", Contrasena |-> "a", Sucursal |-> "Centro"],
      [Usuario |-> "luis", Contrasena |-> "b", Sucursal |-> "Sur"]>>

Init ==
    /\ sales = {}
    /\ nextId = 0
    /\ users = UsersTable
    /\ admins = {[id |-> i, is_active |-> TRUE] : i \in AdminIds}
    /\ branches = BranchesTable
    /\ reqs = [p \in Procs |-> Idle]
    /\ resp = [op |-> "none", caller |-> Token(None, "none"), status |-> 0, rows |-> {}]
    /\ cierre_caja_data = <<>>
    /\ user_data = UsersSheet
    /\ registro_data = <<>>
    /\ time_entries = {}
    /\ utcnow = 2

\* The response sent to the caller: the status code and, for the read
\* operations, the sales rows in the body.
Respond(op, token, status, rows) ==
    resp' = [op |-> op, caller |-> token, status |-> status, rows |-> rows]

\* POST /sales/ : create_sales_record, with create_sales run to completion.
CreateSalesRecord(token, body) ==
    LET auth == get_current_admin_or_user(token)
        d == model_dump(body)
        check == create_sales_check(sales, d)
    IN  /\ IF auth.status # 0 THEN
                /\ Respond("create", token, auth.status, {})
                /\ UNCHANGED <<sales, nextId>>
           ELSE IF ~SalesCreate(d) THEN
                /\ Respond("create", token, 422, {})
                /\ UNCHANGED <<sales, nextId>>
           ELSE IF check # 0 THEN
                /\ Respond("create", token, check, {})
                /\ UNCHANGED <<sales, nextId>>
           ELSE IF ~(validate_card_amounts(d) /\ validate_cash_amounts(d)
                       /\ validate_payments_number(d)) THEN
                /\ Respond("create", token, 500, {})
                /\ UNCHANGED <<sales, nextId>>
           ELSE /\ nextId < MaxSales
                /\ sales' = sales \cup {create_sales_row(nextId + 1, d)}
                /\ nextId' = nextId + 1
                /\ Respond("create", token, 201, {})
        /\ UNCHANGED <<users, admins, branches, reqs, cierre_caja_data, excel_vars, clock_vars>>

\* PUT /sales/{sales_id} : update_sales_record with update_sales.
UpdateSalesRecord(token, sales_id, body) ==
    LET auth == get_current_admin(token)
        u == model_dump(body)
        found == get_sales(sales, sales_id)
    IN  /\ IF auth.status # 0 THEN
                /\ Respond("update", token, auth.status, {})
                /\ UNCHANGED sales
           ELSE IF ~SalesUpdate(u) THEN
                /\ Respond("update", token, 422, {})
                /\ UNCHANGED sales
           ELSE IF found = {} THEN
                /\ Respond("update", token, 404, {})
                /\ UNCHANGED sales
           ELSE LET row == CHOOSE s \in found : TRUE
                    check == update_sales_check(sales, row, u)
                IN  IF check # 0 THEN
                        /\ Respond("update", token, check, {})
                        /\ UNCHANGED sales
                    ELSE IF ~(validate_card_amounts(u) /\ validate_cash_amounts(u)
                                /\ validate_payments_number(u)) THEN
                        /\ Respond("update", token, 500, {})
                        /\ UNCHANGED sales
                    ELSE
                        /\ sales' = (sales \ {row}) \cup {update_sales_row(row, u)}
                        /\ Respond("update", token, 200, {})
        /\ UNCHANGED <<nextId, users, admins, branches, reqs, cierre_caja_data, excel_vars, clock_vars>>

\* DELETE /sales/{sales_id} : delete_sales_record with delete_sales.
DeleteSalesRecord(token, sales_id) ==
    LET auth == get_current_admin(token)
        found == get_sales(sales, sales_id)
    IN  /\ IF auth.status # 0 THEN
                /\ Respond("delete", token, auth.status, {})
                /\ UNCHANGED sales
           ELSE IF found = {} THEN
                /\ Respond("delete", token, 404, {})
                /\ UNCHANGED sales
           ELSE /\ sales' = sales \ found
                /\ Respond("delete", token, 200, {})
        /\ UNCHANGED <<nextId, users, admins, branches, reqs, cierre_caja_data, excel_vars, clock_vars>>

\* PATCH /sales/{sales_id}/review : update_sales_review.  The HTTPException
\* raised for a missing row is caught by `except Exception` and re-raised as 500.
UpdateSalesReview(token, sales_id, review_state) ==
    LET auth == get_current_admin(token)
        found == get_sales(sales, sales_id)
    IN  /\ IF auth.status # 0 THEN
                /\ Respond("review", token, auth.status, {})
                /\ UNCHANGED sales
           ELSE IF review_state \notin ReviewStates THEN
                /\ Respond("review", token, 422, {})
                /\ UNCHANGED sales
           ELSE IF found = {} THEN
                /\ Respond("review", token, 500, {})
                /\ UNCHANGED sales
           ELSE /\ sales' = {IF s \in found
                                THEN update_sales_review_status(s, review_state)
                                ELSE s : s \in sales}
                /\ Respond("review", token, 200, {})
        /\ UNCHANGED <<nextId, users, admins, branches, reqs, cierre_caja_data, excel_vars, clock_vars>>

\* GET /sales/
ListSalesRecords(token) ==
    /\ Respond("list", token, list_sales_records(token).status, list_sales_records(token).rows)
    /\ UNCHANGED <<sales, nextId, users, admins, branches, reqs, cierre_caja_data, excel_vars, clock_vars>>

\* GET /sales/search
SearchSalesRecords(token, worker, branch) ==
    /\ Respond("search", token, search_sales_records(token, worker, branch).status, search_sales_records(token, worker, branch).rows)
    /\ UNCHANGED <<sales, nextId, users, admins, branches, reqs, cierre_caja_data, excel_vars, clock_vars>>

\* GET /sales/{sales_id}
GetSalesRecord(token, sales_id) ==
    /\ Respond("get", token, get_sales_record(token, sales_id).status, get_sales_record(token, sales_id).rows)
    /\ UNCHANGED <<sales, nextId, users, admins, branches, reqs, cierre_caja_data, excel_vars, clock_vars>>

\* GET /sales/summary
GetSalesSummary(token, branch) ==
    /\ Respond("summary", token, get_sales_summary(token, branch).status, get_sales_summary(token, branch).rows)
    /\ UNCHANGED <<sales, nextId, users, admins, branches, reqs, cierre_caja_data, excel_vars, clock_vars>>

\* fix_card_totals: the values the script writes for one row (lines 82-134).
\* A row is rewritten only when a value moves by more than 0.01.
fix_card_totals_row(s) ==
    LET new_card_total == s.card_kiwi + s.transfer_amt - s.card_refund
        cash_total == s.cash_amt - s.cash_refund
        payment_total == new_card_total + cash_total
        new_discrepancy == payment_total - s.sales_total
        card_total_changed == Abs(s.card_total - new_card_total) > 1
        discrepancy_changed == Abs(s.discrepancy - new_discrepancy) > 1
    IN  IF card_total_changed \/ discrepancy_changed
            THEN [s EXCEPT !.card_total = new_card_total,
                           !.discrepancy = new_discrepancy]
            ELSE s

\* python scripts/fix_card_totals_data.py : a live run of fix_card_totals.
FixCardTotals ==
    /\ sales' = {fix_card_totals_row(s) : s \in sales}
    /\ Respond("fix_card_totals", Token(None, "script"), 0, {})
    /\ UNCHANGED <<nextId, users, admins, branches, reqs, cierre_caja_data, excel_vars, clock_vars>>

\* GET /sales/search with filters and order_by; the body is a list.
SearchSalesQuery(token, q, order_by, scan) ==
    /\ LET r == search_sales_records_query(token, q, order_by, scan)
       IN  Respond("search_query", token, r.status, Answer([q |-> q, order_by |-> order_by], r.rows))
    /\ UNCHANGED <<sales, nextId, users, admins, branches, reqs, cierre_caja_data, excel_vars, clock_vars>>

\* GET /sales/reports/discrepancies : get_discrepancy_report (endpoint).
GetDiscrepancyReport(token, q, scan) ==
    LET auth == get_current_admin(token)
    IN  /\ IF auth.status # 0 THEN
                Respond("discrepancy_report", token, auth.status, Answer(q, {}))
           ELSE IF q.start_date # None /\ q.end_date # None /\ q.start_date > q.end_date THEN
                Respond("discrepancy_report", token, 400, Answer(q, {}))
           ELSE Respond("discrepancy_report", token, 200,
                        Answer(q, get_discrepancy_report(sales, q, scan)))
        /\ UNCHANGED <<sales, nextId, users, admins, branches, reqs, cierre_caja_data, excel_vars, clock_vars>>

\* GET /sales/reports/period : get_sales_period_report (endpoint).
GetSalesPeriodReport(token, q) ==
    LET auth == get_current_admin(token)
        report_data == get_sales_period_report(sales, q.start_date, q.end_date, q.branch_id)
    IN  /\ IF auth.status # 0 THEN
                Respond("period_report", token, auth.status, Answer(q, {}))
           ELSE IF q.start_date > q.end_date THEN
                Respond("period_report", token, 400, Answer(q, {}))
           ELSE IF DivisionError(report_data.summary) THEN
                Respond("period_report", token, 500, Answer(q, {}))
           ELSE Respond("period_report", token, 200, Answer(q, report_data))
        /\ UNCHANGED <<sales, nextId, users, admins, branches, reqs, cierre_caja_data, excel_vars, clock_vars>>

\* GET /sales/summary with the query parameters of the request.
GetSalesSummaryData(token, q, scan) ==
    /\ LET r == get_sales_summary_data(token, q, scan)
       IN  Respond("summary_data", token, r.status, Answer(q, r.body))
    /\ UNCHANGED <<sales, nextId, users, admins, branches, reqs, cierre_caja_data, excel_vars, clock_vars>>

-----------------------------------------------------------------------------
(* Excel import: src/backend/fastapi/api/v1/endpoints/excel_import.py.  A    *)
(* file is the sequence of rows of its "Ventas" sheet; a row is a record of  *)
(* its cells, with OPERADOR and SUCURSAL already looked up (the id, or an id *)
(* of no user / branch when the name is unknown).                            *)

\* import_sales_from_excel: the errors list of a row is not empty (lines 239-316).
import_row_errors(r) ==
    \/ ~\E u \in users : u.id = r.worker_id /\ u.deleted_at = None
    \/ ~\E b \in branches : b.id = r.branch_id /\ b.deleted_at = None
    \/ r.closure_date = None
    \/ r.closure_number = 0
    \/ r.card_itpv < 0
    \/ r.card_refund < 0
    \/ r.cash_amt < 0
    \/ r.cash_refund < 0
    \/ r.kiwi_fee_total < 0

\* The record of a row, as a variant that keeps a review state found in the row.
import_record_supplied(id, r) ==
    calculate_totals(
        [f \in {"id"} \cup SalesFields \cup DerivedFields \cup {"review_state"} |->
            IF f = "id" THEN id
            ELSE IF f = "review_state"
                THEN (IF "review_state" \in DOMAIN r THEN r.review_state ELSE "pending")
            ELSE IF f \in SalesFields THEN r[f]
            ELSE 0])

\* import_sales_from_excel: the record built for a valid row (lines 321-339)
\* and the Sales object made of it, with calculate_totals (lines 356-359).
import_record(id, r) ==
    calculate_totals(
        [f \in {"id"} \cup SalesFields \cup DerivedFields \cup {"review_state"} |->
            IF f = "id" THEN id
            ELSE IF f = "review_state" THEN "pending"
            ELSE IF f \in SalesFields THEN r[f]
            ELSE 0])

\* import_sales_from_excel as a variant that commits each record as it is
\* added: the records before the one that fails stay stored.
ImportSalesFromExcelEach(token, file) ==
    LET auth == get_current_admin(token)
        valid_records == SelectSeq(file, LAMBDA r : ~import_row_errors(r))
        n == Len(valid_records)
        ok(i) == /\ validate_card_amounts(valid_records[i])
                 /\ validate_cash_amounts(valid_records[i])
                 /\ validate_payments_number(valid_records[i])
        done == {i \in 1..n : \A j \in 1..i : ok(j)}
    IN  /\ IF auth.status # 0 THEN
                /\ Respond("import", token, auth.status, {})
                /\ UNCHANGED <<sales, nextId>>
           ELSE IF n = 0 THEN
                /\ Respond("import", token, 200, {})
                /\ UNCHANGED <<sales, nextId>>
           ELSE /\ nextId + n <= MaxSales
                /\ sales' = sales \cup {import_record(nextId + i, valid_records[i]) : i \in done}
                /\ nextId' = nextId + n
                /\ Respond("import", token, IF done = 1..n THEN 200 ELSE 500, {})
        /\ UNCHANGED <<users, admins, branches, reqs, cierre_caja_data, excel_vars, clock_vars>>

\* POST /import/sales : import_sales_from_excel.  Sales(**record_data) runs the
\* model's validators; an exception rolls the whole file back (lines 373-378).
ImportSalesFromExcel(token, file) ==
    LET auth == get_current_admin(token)
        valid_records == SelectSeq(file, LAMBDA r : ~import_row_errors(r))
        n == Len(valid_records)
    IN  /\ IF auth.status # 0 THEN
                /\ Respond("import", token, auth.status, {})
                /\ UNCHANGED <<sales, nextId>>
           ELSE IF n = 0 THEN
                /\ Respond("import", token, 200, {})
                /\ UNCHANGED <<sales, nextId>>
           ELSE IF \E i \in 1..n :
                        ~( /\ validate_card_amounts(valid_records[i])
                           /\ validate_cash_amounts(valid_records[i])
                           /\ validate_payments_number(valid_records[i]) ) THEN
                /\ Respond("import", token, 500, {})
                /\ UNCHANGED <<sales, nextId>>
           ELSE /\ nextId + n <= MaxSales
                /\ sales' = sales \cup {import_record(nextId + i, valid_records[i]) : i \in 1..n}
                /\ nextId' = nextId + n
                /\ Respond("import", token, 200, {})
        /\ UNCHANGED <<users, admins, branches, reqs, cierre_caja_data, excel_vars, clock_vars>>

-----------------------------------------------------------------------------
(* Two create requests served by two server processes on one database.     *)
(* Inside one uvicorn process the handler runs create_sales without         *)
(* yielding; a second process (another instance, or uvicorn with workers)   *)
(* runs its own create_sales in its own transaction.  The SELECTs of lines  *)
(* 36-63 see the rows committed so far, and the INSERT is committed at line *)
(* 93.  The sales table declares no unique constraint on (closure_date,     *)
(* closure_number, branch_id).                                              *)

\* create_sales up to the duplicate check (lines 36-69).
CreateCheck(p, token, d) ==
    LET auth == get_current_admin_or_user(token)
        check == create_sales_check(sales, d)
        status == IF auth.status # 0 THEN auth.status
                  ELSE IF ~SalesCreate(d) THEN 422
                  ELSE check
        data == [closure_date |-> d.closure_date,
                 closure_number |-> d.closure_number, branch_id |-> d.branch_id]
    IN  /\ reqs[p].pc = "idle"
        /\ IF status # 0 THEN
                /\ reqs' = [reqs EXCEPT ![p] = [pc |-> "done", data |-> data,
                                                status |-> status]]
                /\ Respond("create", token, status, {})
           ELSE /\ reqs' = [reqs EXCEPT ![p] = [pc |-> "checked", data |-> d,
                                                status |-> 0]]
                /\ UNCHANGED resp
        /\ UNCHANGED <<sales, nextId, users, admins, branches, cierre_caja_data, excel_vars, clock_vars>>

\* create_sales from the insert to the commit (lines 71-96).
CreateInsert(p) ==
    LET d == reqs[p].data
        data == [closure_date |-> d.closure_date,
                 closure_number |-> d.closure_number, branch_id |-> d.branch_id]
    IN  /\ reqs[p].pc = "checked"
        /\ nextId < MaxSales
        /\ sales' = sales \cup {create_sales_row(nextId + 1, d)}
        /\ nextId' = nextId + 1
        /\ reqs' = [reqs EXCEPT ![p] = [pc |-> "done", data |-> data, status |-> 201]]
        /\ resp' = [op |-> "create", caller |-> resp.caller, status |-> 201, rows |-> {}]
        /\ UNCHANGED <<users, admins, branches, cierre_caja_data, excel_vars, clock_vars>>

-----------------------------------------------------------------------------
(* Request inputs *)

Raw(payments_nbr, sales_total, card_itpv, card_refund, card_kiwi, transfer_amt, cash_amt, cash_refund, kiwi_fee_total) ==
    [payments_nbr |-> payments_nbr, sales_total |-> sales_total,
     card_itpv |-> card_itpv, card_refund |-> card_refund, card_kiwi |-> card_kiwi,
     transfer_amt |-> transfer_amt, cash_amt |-> cash_amt,
     cash_refund |-> cash_refund, kiwi_fee_total |-> kiwi_fee_total]

Key(worker_id, branch_id, closure_date, closure_number) ==
    [worker_id |-> worker_id, branch_id |-> branch_id,
     closure_date |-> closure_date, closure_number |-> closure_number]

\* A closure that balances, with no payments counted.
RawBalanced == Raw(0, 10000, 0, 0, 6000, 0, 4000, 0, 0)
\* A closure with an ITPV amount, refunds, a fee and three payments.
RawItpv == Raw(3, 10000, 5000, 1000, 7000, 2000, 3000, 1000, 500)
\* A closure with a negative register total.
RawNegSales == Raw(1, -100, 0, 0, 0, 0, 0, 0, 0)
\* Amounts a caller must not send.
RawNegKiwi == Raw(1, 10000, 0, 0, -1, 0, 4000, 0, 0)
RawNegPayments == Raw(-1, 10000, 0, 0, 6000, 0, 4000, 0, 0)
RawNegFee == Raw(1, 10000, 0, 0, 6000, 0, 4000, 0, -1)

AdminToken == Token(100, "admin")
UserToken(i) == Token(i, "user")

Dates == {1, 2}
ClosureNumbers == {1, 2}

\* Spec: creates and amendments over every (date, number, branch), with
\* worker, branch and closure ids that do not exist.
Tokens == {AdminToken, UserToken(1), UserToken(MissingId)}
WriteTokens == {AdminToken, UserToken(1)}

CreateInputs ==
    {Key(1, b, d, n) @@ RawBalanced : b \in BranchIds, d \in Dates, n \in ClosureNumbers}
    \cup {Key(MissingId, 1, 1, 1) @@ RawBalanced, Key(1, MissingId, 1, 1) @@ RawBalanced}

UpdateInputs ==
    {[closure_number |-> n] : n \in ClosureNumbers}
    \cup {[closure_date |-> d] : d \in Dates}
    \cup {[branch_id |-> b] : b \in BranchIds \cup {MissingId}}
    \cup {[closure_date |-> 2, closure_number |-> 2], [worker_id |-> MissingId]}

TargetIds == SaleIds \cup {MissingId}

Next ==
    \/ \E t \in Tokens, d \in CreateInputs : CreateSalesRecord(t, d)
    \/ \E t \in WriteTokens, i \in TargetIds, u \in UpdateInputs :
            UpdateSalesRecord(t, i, u)
    \/ \E t \in WriteTokens, i \in TargetIds : DeleteSalesRecord(t, i)

Spec == Init /\ [][Next]_vars

\* The closure of the schemas' example (SalesCreate.model_config): 25 payments,
\* 1250.50 sold, 800.00 by ITPV, 25.00 refunded to cards, 300.00 by Kiwi,
\* 50.00 transferred, 500.00 in cash, 24.50 refunded in cash, 12.50 of fees.
RawExample == Raw(25, 125050, 80000, 2500, 30000, 5000, 50000, 2450, 1250)

\* SpecCalc: one branch and date, every kind of raw input.
CalcCreateInputs ==
    {Key(1, 1, 1, n) @@ r :
        n \in {0} \cup ClosureNumbers,
        r \in {RawBalanced, RawItpv, RawExample, RawNegSales, RawNegKiwi, RawNegPayments,
               RawNegFee}}

CalcUpdateInputs ==
    {[card_itpv |-> 5000], [payments_nbr |-> 4], [sales_total |-> -100],
     [cash_amt |-> 3000, cash_refund |-> 1000], [cash_refund |-> -1],
     [closure_number |-> 0]}

NextCalc ==
    \/ \E d \in CalcCreateInputs : CreateSalesRecord(UserToken(1), d)
    \/ \E i \in SaleIds, u \in CalcUpdateInputs : UpdateSalesRecord(AdminToken, i, u)
    \/ \E i \in SaleIds : DeleteSalesRecord(AdminToken, i)

SpecCalc == Init /\ [][NextCalc]_vars

\* SpecReview: two workers, the review action and the read operations.
ReviewTokens == {AdminToken, UserToken(1), UserToken(2)}

ReviewCreateInputs ==
    {Key(w, 1, 1, n) @@ RawBalanced : w \in UserIds, n \in ClosureNumbers}

ReviewUpdateInputs == {[closure_number |-> 2], [card_itpv |-> 5000]}

NextReview ==
    \/ \E t \in ReviewTokens, d \in ReviewCreateInputs : CreateSalesRecord(t, d)
    \/ \E t \in ReviewTokens, i \in SaleIds, u \in ReviewUpdateInputs :
            UpdateSalesRecord(t, i, u)
    \/ \E t \in ReviewTokens, i \in SaleIds : DeleteSalesRecord(t, i)
    \/ \E t \in ReviewTokens, i \in TargetIds, r \in ReviewStates \cup {"bogus"} :
            UpdateSalesReview(t, i, r)
    \/ \E t \in ReviewTokens : ListSalesRecords(t)
    \/ \E t \in ReviewTokens, w \in {None, 1}, b \in {None, 1} : SearchSalesRecords(t, w, b)
    \/ \E t \in ReviewTokens, i \in SaleIds : GetSalesRecord(t, i)
    \/ \E t \in ReviewTokens, b \in {None, 1} : GetSalesSummary(t, b)
    \/ FixCardTotals

SpecReview == Init /\ [][NextReview]_vars

\* SpecFix: closures with an ITPV amount of 0.00, 0.01, 0.02 and 50.00, and
\* live runs of the card-total correction script.
RawItpvCent == Raw(3, 10000, 1, 0, 6000, 0, 4000, 0, 0)
RawItpvTwoCents == Raw(3, 10000, 2, 0, 6000, 0, 4000, 0, 0)

FixCreateInputs ==
    {Key(1, 1, 1, n) @@ r :
        n \in ClosureNumbers, r \in {RawBalanced, RawItpv, RawItpvCent, RawItpvTwoCents}}

FixUpdateInputs == {[card_itpv |-> 1], [card_itpv |-> 5000], [cash_amt |-> 3000]}

NextFix ==
    \/ \E d \in FixCreateInputs : CreateSalesRecord(UserToken(1), d)
    \/ \E i \in SaleIds, u \in FixUpdateInputs : UpdateSalesRecord(AdminToken, i, u)
    \/ FixCardTotals

SpecFix == Init /\ [][NextFix]_vars

\* SpecConc: each server process serves one create request, step by step.
ConcCreateInputs ==
    {Key(1, b, 1, n) @@ RawBalanced : b \in BranchIds \cup {MissingId}, n \in {0} \cup ClosureNumbers}

NextConc ==
    \/ \E p \in Procs, t \in Tokens, d \in ConcCreateInputs : CreateCheck(p, t, d)
    \/ \E p \in Procs : CreateInsert(p)

SpecConc == Init /\ [][NextConc]_vars

\* SpecImport: creates, imports, amendments and reviews whose bodies also
\* carry values for fields the caller is not meant to set.
Supplied == [card_total |-> 99900, cash_total |-> 99900, discrepancy |-> 99900,
             avg_sale |-> 99900, card_kiwi_minus_fee |-> 99900,
             revenue_total |-> 99900, review_state |-> "approved"]

ImportCreateInputs ==
    {Key(1, 1, 1, 1) @@ RawBalanced @@ Supplied,
     Key(1, 1, 1, 1) @@ RawBalanced @@ [review_state |-> "bogus"]}

ImportUpdateInputs ==
    {[card_itpv |-> 5000] @@ Supplied, [card_total |-> 99900],
     [review_state |-> "bogus"]}

ImportRows ==
    {Key(1, 1, 2, 1) @@ RawItpv @@ Supplied,
     Key(1, 1, 2, 2) @@ RawItpv @@ [review_state |-> "bogus"],
     Key(MissingId, 1, 2, 1) @@ RawBalanced,
     Key(1, 1, 2, 1) @@ RawNegKiwi}

ImportFiles == {<<>>} \cup {<<r>> : r \in ImportRows}
                \cup {<<r, q>> : r \in ImportRows, q \in ImportRows}

NextImport ==
    \/ \E t \in WriteTokens, d \in ImportCreateInputs : CreateSalesRecord(t, d)
    \/ \E t \in WriteTokens, file \in ImportFiles : ImportSalesFromExcel(t, file)
    \/ \E i \in SaleIds, u \in ImportUpdateInputs : UpdateSalesRecord(AdminToken, i, u)
    \/ \E i \in SaleIds, r \in ReviewStates \cup {"bogus"} :
            UpdateSalesReview(AdminToken, i, r)

SpecImport == Init /\ [][NextImport]_vars

\* SpecReport: closures of two branches, two workers and two days, with
\* discrepancies of 0.00, 0.01, -0.01, 0.02 and -3.00, then the listings and
\* reports of an administrator.
RawOver1 == Raw(3, 10000, 0, 0, 6000, 0, 4001, 0, 0)
RawShort1 == Raw(3, 10000, 0, 0, 6000, 0, 3999, 0, 0)
RawOver2 == Raw(3, 10000, 0, 0, 6000, 0, 4002, 0, 0)
RawShort300 == Raw(7, 5000, 0, 0, 4700, 0, 0, 0, 100)

ReportCreateInputs ==
    {Key(1, 1, 1, 1) @@ RawBalanced, Key(1, 1, 1, 2) @@ RawOver2,
     Key(1, 2, 1, 1) @@ RawShort1, Key(2, 2, 2, 1) @@ RawOver1,
     Key(2, 1, 2, 2) @@ RawShort300, Key(2, 2, 1, 2) @@ RawBalanced}

OrderBys == {"date_desc", "date_asc", "sales_desc", "sales_asc", "discrepancy_desc"}

Query(branch_id, start_date, end_date, has) ==
    [worker_id |-> None, branch_id |-> branch_id, start_date |-> start_date,
     end_date |-> end_date, closure_number |-> None, has_discrepancy |-> has]

SearchQueries ==
    {Query(None, None, None, h) : h \in {"None", "True", "False"}}
    \cup {Query(1, None, None, "None"), Query(None, 2, 1, "None")}

\* Two orders in which a scan can meet the rows: by insertion, and reversed.
Scans == {[i \in SaleIds |-> i], [i \in SaleIds |-> MaxSales + 1 - i]}

ReportQuery(branch_id, start_date, end_date, min_discrepancy) ==
    [branch_id |-> branch_id, start_date |-> start_date, end_date |-> end_date,
     min_discrepancy |-> min_discrepancy]

DiscrepancyQueries ==
    {ReportQuery(None, None, None, m) : m \in {None, 2, 300}}
    \cup {ReportQuery(2, None, None, None), ReportQuery(None, 2, 2, None),
          ReportQuery(None, 2, 1, None)}

PeriodQueries ==
    {ReportQuery(b, d, e, None) : b \in {None, 1}, d \in Dates, e \in Dates}

SummaryQueries ==
    PeriodQueries \cup {ReportQuery(None, None, None, None), ReportQuery(2, 1, None, None)}

NextReport ==
    \/ \E d \in ReportCreateInputs : CreateSalesRecord(UserToken(1), d)
    \/ \E q \in SearchQueries, o \in OrderBys, scan \in Scans :
            SearchSalesQuery(AdminToken, q, o, scan)
    \/ \E t \in WriteTokens, q \in DiscrepancyQueries, scan \in Scans :
            GetDiscrepancyReport(t, q, scan)
    \/ \E t \in WriteTokens, q \in PeriodQueries : GetSalesPeriodReport(t, q)
    \/ \E q \in SummaryQueries, scan \in Scans : GetSalesSummaryData(AdminToken, q, scan)

SpecReport == Init /\ [][NextReport]_vars

\* A table with more closures than the discrepancy report returns.
MaxRows == 52

RowIds == 1..MaxRows

\* The raw amounts of a closure whose discrepancy is v cents.
RawDiscrepancy(v) ==
    IF v >= 0 THEN Raw(0, 0, 0, 0, 0, 0, v, 0, 0) ELSE Raw(0, 0 - v, 0, 0, 0, 0, 0, 0, 0)

\* The discrepancy of the i-th closure of a table: all different ("distinct"),
\* three values shared by many closures ("ties"), or shortages and overages
\* among closures that balance or are off by one cent ("mixed").
RowDiscrepancy(pattern, i) ==
    IF pattern = "distinct" THEN 100 * i
    ELSE IF pattern = "ties" THEN 100 * ((i % 3) + 1)
    ELSE IF i % 5 = 0 THEN 0
    ELSE IF i % 5 = 1 THEN 1
    ELSE IF i % 5 = 2 THEN 0 - 200
    ELSE IF i % 5 = 3 THEN 300
    ELSE 0 - 300

\* The table after n closures of one day were created at branches 1 and 2.
Table(pattern, n) ==
    {create_sales_row(i, Key(1, (i % 2) + 1, 1, i) @@ RawDiscrepancy(RowDiscrepancy(pattern, i))) :
        i \in 1..n}

TableSizes == {3, MaxRows - 3, MaxRows - 2, MaxRows - 1, MaxRows}

InitTop ==
    /\ \E pattern \in {"distinct", "ties", "mixed"}, n \in TableSizes :
            /\ sales = Table(pattern, n)
            /\ nextId = n
    /\ users = UsersTable
    /\ admins = {[id |-> i, is_active |-> TRUE] : i \in AdminIds}
    /\ branches = BranchesTable
    /\ reqs = [p \in Procs |-> Idle]
    /\ resp = [op |-> "none", caller |-> Token(None, "none"), status |-> 0, rows |-> {}]
    /\ cierre_caja_data = <<>>
    /\ user_data = UsersSheet
    /\ registro_data = <<>>
    /\ time_entries = {}
    /\ utcnow = 2

TopScans == {[i \in RowIds |-> i], [i \in RowIds |-> MaxRows + 1 - i]}

TopQueries ==
    {ReportQuery(None, None, None, m) : m \in {None, 250, 4000}}
    \cup {ReportQuery(1, None, None, None), ReportQuery(None, 2, 1, None)}

NextTop ==
    \E t \in WriteTokens, q \in TopQueries, scan \in TopScans : GetDiscrepancyReport(t, q, scan)

SpecTop == InitTop /\ [][NextTop]_vars

-----------------------------------------------------------------------------
(* The Excel-backed closure form: src/backend/app.py *)

\* Number of rows the 'Ventas' sheet can take in one behaviour.
MaxCierres == 3

\* request.form.get(f, '0'), and request.form.get(f, '') for the text fields:
\* 0 stands for both defaults ('0' and the empty text).
FormGet(form, f) == IF f \in DOMAIN form THEN form[f] ELSE 0

\* The form fields handle_cierre_caja passes to float() or int().
NumberFields ==
    {"tarjetaKiwi", "transferencias", "ventasTotales", "tarjetaITPV", "devolucionTarjeta",
     "efectivo", "devolucionEfectivo", "totalEfectivoReal", "numeroPagos", "ticketPromedio",
     "totalComisionKiwi", "totalSinComision", "totalIngresos"}

\* float(...) or int(...) raises ValueError: form.malformed is the set of the
\* fields whose text is not a number.
FormValueError(form) == form.malformed \cap NumberFields # {}

\* handle_cierre_caja: the row built from the form (lines 385-407), amounts in
\* cents.  The columns are named as in CIERRE_CAJA_COLUMNS, without accents;
\* NOTAS and FECHA_REGISTRO (free text and the time of the request) are left
\* out.  Only 'TOTAL TARJETA REAL' is computed by the server.
form_data(form) ==
    ("OPERADOR" :> FormGet(form, "operador"))
    @@ ("FECHA DE CORTE" :> FormGet(form, "fecha"))
    @@ ("NO. CIERRE" :> FormGet(form, "numeroCierre"))
    @@ ("VENTAS TOTALES" :> FormGet(form, "ventasTotales"))
    @@ ("TARJETA SEGUN ITPV" :> FormGet(form, "tarjetaITPV"))
    @@ ("DEVOLUCION EN TARJETA" :> FormGet(form, "devolucionTarjeta"))
    @@ ("TARJETA/ KIWI" :> FormGet(form, "tarjetaKiwi"))
    @@ ("TRANSFER" :> FormGet(form, "transferencias"))
    @@ ("TOTAL TARJETA REAL" :> FormGet(form, "tarjetaKiwi") + FormGet(form, "transferencias"))
    @@ ("EFECTIVO" :> FormGet(form, "efectivo"))
    @@ ("DEVOLUCION EN EFECTIVO" :> FormGet(form, "devolucionEfectivo"))
    @@ ("TOTAL EN EFECTIVO REAL" :> FormGet(form, "totalEfectivoReal"))
    @@ ("DIFERENCIA REVISAR" :> FormGet(form, "diferenciaRevisar"))
    @@ ("SUCURSAL" :> FormGet(form, "sucursal"))
    @@ ("NO. PAGOS" :> FormGet(form, "numeroPagos"))
    @@ ("TICKET PROMEDIO" :> FormGet(form, "ticketPromedio"))
    @@ ("TOTAL COMISION KIWI" :> FormGet(form, "totalComisionKiwi"))
    @@ ("TOTAL SIN COMISION" :> FormGet(form, "totalSinComision"))
    @@ ("TOTAL DE INGRESOS" :> FormGet(form, "totalIngresos"))

\* The JSON body of the handler's answer (always sent with status 200).
Jsonify(success, message) == [success |-> success, message |-> message]

\* POST /cierre-caja : handle_cierre_caja.  No login is asked for.  saved is
\* the outcome of save_to_excel (FALSE: the workbook could not be written, and
\* the row is taken off again).
HandleCierreCaja(form, saved) ==
    LET caller == Token(None, "none")
        row == form_data(form)
    IN  /\ Len(cierre_caja_data) < MaxCierres
        /\ IF FormValueError(form) THEN
                /\ Respond("cierre_caja", caller, 200, Jsonify(FALSE, "formato"))
                /\ UNCHANGED cierre_caja_data
           ELSE IF row["OPERADOR"] = 0 \/ row["FECHA DE CORTE"] = 0
                    \/ row["NO. CIERRE"] = 0 \/ row["SUCURSAL"] = 0 THEN
                /\ Respond("cierre_caja", caller, 200, Jsonify(FALSE, "requeridos"))
                /\ UNCHANGED cierre_caja_data
           ELSE IF ~saved THEN
                /\ Respond("cierre_caja", caller, 200, Jsonify(FALSE, "Excel"))
                /\ UNCHANGED cierre_caja_data
           ELSE /\ Respond("cierre_caja", caller, 200, Jsonify(TRUE, "guardada"))
                /\ cierre_caja_data' = Append(cierre_caja_data, row)
        /\ UNCHANGED <<sales, nextId, users, admins, branches, reqs, excel_vars, clock_vars>>

\* The form of a closure of 500.00 sold for 200.00 by card and 300.00 in cash
\* (20.00 of it refunded), with the totals the page computed for it.
Form(operador, numeroCierre) ==
    [operador |-> operador, fecha |-> 1, numeroCierre |-> numeroCierre, sucursal |-> 1,
     ventasTotales |-> 50000, tarjetaITPV |-> 20000, devolucionTarjeta |-> 0,
     tarjetaKiwi |-> 20000, transferencias |-> 0, efectivo |-> 32000,
     devolucionEfectivo |-> 2000, totalEfectivoReal |-> 30000, diferenciaRevisar |-> 0,
     numeroPagos |-> 10, ticketPromedio |-> 5000, totalComisionKiwi |-> 700,
     totalSinComision |-> 19300, totalIngresos |-> 49300, malformed |-> {}]

Forms ==
    {Form(1, 1), Form(1, 2), Form(2, 1),
     \* the same closure sent with totals of the sender's choosing
     [Form(1, 1) EXCEPT !.totalEfectivoReal = 99900, !.diferenciaRevisar = 99900,
                        !.ticketPromedio = 99900, !.totalSinComision = 99900,
                        !.totalIngresos = 99900],
     \* a form without an operator, and one whose amount is not a number
     Form(0, 1),
     [Form(1, 1) EXCEPT !.malformed = {"efectivo"}]}

NextLegacy ==
    \E form \in Forms, saved \in BOOLEAN : HandleCierreCaja(form, saved)

SpecLegacy == Init /\ [][NextLegacy]_vars

-----------------------------------------------------------------------------
(* The Excel-backed users and attendance log: src/backend/app.py.  The     *)
(* handlers work on DataFrames held in module-level globals and write the  *)
(* changed sheet to the workbook with save_to_excel; saved is its outcome. *)
(* load_all_data() returns freshly read DataFrames and assigns no global.  *)

\* Number of rows the 'Registro' sheet can take in one behaviour.
MaxRegistros == 3

\* An empty cell: ''.
Blank == 0 - 1

\* str.upper() on the user names of the model.
Upper(name) ==
    IF name \in {"Ana", "ANA", "ana"} THEN "ANA"
    ELSE IF name \in {"luis", "LUIS"} THEN "LUIS"
    ELSE name

\* The values of the column 'Usuario' of the users sheet.
Usuarios(data) == {data[i].Usuario : i \in 1..Len(data)}

\* POST /delete-user : delete_user.  When the workbook cannot be written the
\* handler calls load_all_data() and drops what it returns (line 1062).
LegacyDeleteUser(username, saved) ==
    LET caller == Token(None, "none")
        remaining == SelectSeq(user_data, LAMBDA r : r.Usuario # username)
    IN  /\ IF username = "" THEN
                /\ Respond("delete_user", caller, 200, Jsonify(FALSE, "requerido"))
                /\ UNCHANGED user_data
           ELSE IF user_data = <<>> THEN
                /\ Respond("delete_user", caller, 200, Jsonify(FALSE, "cargar"))
                /\ UNCHANGED user_data
           ELSE IF username \notin Usuarios(user_data) THEN
                /\ Respond("delete_user", caller, 200, Jsonify(FALSE, "no existe"))
                /\ UNCHANGED user_data
           ELSE /\ user_data' = remaining
                /\ IF saved
                      THEN Respond("delete_user", caller, 200, Jsonify(TRUE, "eliminado"))
                      ELSE Respond("delete_user", caller, 200, Jsonify(FALSE, "revertidos"))
        /\ UNCHANGED <<sales, nextId, users, admins, branches, reqs, cierre_caja_data,
                       registro_data, clock_vars>>

\* POST /modify-user : modify_user.  form holds username, new_username,
\* new_password and new_sucursal ("" when not sent).  The row is changed in
\* place; when the workbook cannot be written the handler calls
\* load_all_data() and drops what it returns (line 1115).
LegacyModifyUser(form, saved) ==
    LET caller == Token(None, "none")
        user_index == CHOOSE i \in 1..Len(user_data) :
                        /\ user_data[i].Usuario = form.username
                        /\ \A j \in 1..(i - 1) : user_data[j].Usuario # form.username
        old == user_data[user_index]
        new == [Usuario |-> IF form.new_username # "" THEN form.new_username ELSE old.Usuario,
                Contrasena |-> IF form.new_password # "" THEN form.new_password
                                                         ELSE old.Contrasena,
                Sucursal |-> IF form.new_sucursal # "" THEN form.new_sucursal ELSE old.Sucursal]
    IN  /\ IF form.username = "" THEN
                /\ Respond("modify_user", caller, 200, Jsonify(FALSE, "no se especifico"))
                /\ UNCHANGED user_data
           ELSE IF form.new_username = "" /\ form.new_password = "" /\ form.new_sucursal = "" THEN
                /\ Respond("modify_user", caller, 200, Jsonify(FALSE, "sin datos"))
                /\ UNCHANGED user_data
           ELSE IF form.username \notin Usuarios(user_data) THEN
                /\ Respond("modify_user", caller, 200, Jsonify(FALSE, "no encontrado"))
                /\ UNCHANGED user_data
           ELSE IF /\ form.new_username # ""
                   /\ form.new_username # form.username
                   /\ form.new_username \in Usuarios(user_data) THEN
                /\ Respond("modify_user", caller, 200, Jsonify(FALSE, "en uso"))
                /\ UNCHANGED user_data
           ELSE /\ user_data' = [user_data EXCEPT ![user_index] = new]
                /\ IF saved
                      THEN Respond("modify_user", caller, 200, Jsonify(TRUE, "modificado"))
                      ELSE Respond("modify_user", caller, 200, Jsonify(FALSE, "revertidos"))
        /\ UNCHANGED <<sales, nextId, users, admins, branches, reqs, cierre_caja_data,
                       registro_data, clock_vars>>

\* The rows (by index) under one of these names on a day that have no exit
\* time.
open_shifts(data, usuarios, dia) ==
    {i \in 1..Len(data) :
        /\ data[i].Usuario \in usuarios
        /\ data[i].Dia = dia
        /\ data[i].HoraSalida = Blank}

\* POST /registro-entrada : registro_entrada.  form holds Usuario, Dia and
\* HoraEntrada (None when not sent); the user's rows are found by an exact
\* comparison of the name.
RegistroEntrada(form, saved) ==
    LET caller == Token(None, "none")
        nuevo_registro == [Usuario |-> form.Usuario, Dia |-> form.Dia,
                           HoraEntrada |-> form.HoraEntrada,
                           HoraSalida |-> Blank, HorasTrabajadas |-> Blank]
    IN  /\ Len(registro_data) < MaxRegistros
        /\ IF form.Usuario = "" \/ form.Dia = None \/ form.HoraEntrada = None THEN
                /\ Respond("registro_entrada", caller, 400, Jsonify(FALSE, "faltan datos"))
                /\ UNCHANGED registro_data
           ELSE IF open_shifts(registro_data, {form.Usuario}, form.Dia) # {} THEN
                /\ Respond("registro_entrada", caller, 409, Jsonify(FALSE, "turno abierto"))
                /\ UNCHANGED registro_data
           ELSE IF ~saved THEN
                /\ Respond("registro_entrada", caller, 500, Jsonify(FALSE, "guardar"))
                /\ UNCHANGED registro_data
           ELSE /\ Respond("registro_entrada", caller, 200, Jsonify(TRUE, "entrada"))
                /\ registro_data' = Append(registro_data, nuevo_registro)
        /\ UNCHANGED <<sales, nextId, users, admins, branches, reqs, cierre_caja_data,
                       user_data, clock_vars>>

\* The time worked between two hours of the clock; an exit before the entry
\* is taken as an exit on the next day.
horas_trabajadas(hora_entrada, hora_salida) ==
    IF hora_salida - hora_entrada < 0 THEN hora_salida - hora_entrada + 24
                                      ELSE hora_salida - hora_entrada

\* POST /registro-salida : registro_salida.  The user's rows are found by the
\* upper-cased name; the last open one gets the exit time.  When the workbook
\* cannot be written the row stays changed in memory (lines 819-822).
RegistroSalida(form, saved) ==
    LET caller == Token(None, "none")
        same_upper == {u \in {registro_data[i].Usuario : i \in 1..Len(registro_data)} :
                        Upper(u) = Upper(form.Usuario)}
        open == open_shifts(registro_data, same_upper, form.Dia)
        idx_to_update == CHOOSE i \in open : \A j \in open : j <= i
    IN  /\ IF form.Usuario = "" \/ form.Dia = None \/ form.HoraSalida = None THEN
                /\ Respond("registro_salida", caller, 400, Jsonify(FALSE, "faltan datos"))
                /\ UNCHANGED registro_data
           ELSE IF open = {} THEN
                /\ Respond("registro_salida", caller, 404, Jsonify(FALSE, "sin turno"))
                /\ UNCHANGED registro_data
           ELSE /\ registro_data' =
                    [registro_data EXCEPT
                        ![idx_to_update].HoraSalida = form.HoraSalida,
                        ![idx_to_update].HorasTrabajadas =
                            horas_trabajadas(registro_data[idx_to_update].HoraEntrada,
                                             form.HoraSalida)]
                /\ IF saved
                      THEN Respond("registro_salida", caller, 200, Jsonify(TRUE, "salida"))
                      ELSE Respond("registro_salida", caller, 500, Jsonify(FALSE, "guardar"))
        /\ UNCHANGED <<sales, nextId, users, admins, branches, reqs, cierre_caja_data,
                       user_data, clock_vars>>

\* SpecRevert: the four handlers with a workbook that can fail to be written.
ModifyForms ==
    {[username |-> "Ana", new_username |-> "", new_password |-> "c", new_sucursal |-> ""],
     [username |-> "luis", new_username |-> "Ana", new_password |-> "", new_sucursal |-> ""],
     [username |-> "luis", new_username |-> "", new_password |-> "", new_sucursal |-> "Centro"],
     [username |-> "Ana", new_username |-> "", new_password |-> "", new_sucursal |-> ""],
     [username |-> "", new_username |-> "x", new_password |-> "", new_sucursal |-> ""],
     [username |-> "eva", new_username |-> "x", new_password |-> "", new_sucursal |-> ""]}

EntradaForm(usuario, dia, hora) == [Usuario |-> usuario, Dia |-> dia, HoraEntrada |-> hora]

SalidaForm(usuario, dia, hora) == [Usuario |-> usuario, Dia |-> dia, HoraSalida |-> hora]

NextRevert ==
    \/ \E saved \in BOOLEAN : HandleCierreCaja(Form(1, 1), saved)
    \/ \E username \in {"Ana", "eva", ""}, saved \in BOOLEAN : LegacyDeleteUser(username, saved)
    \/ \E form \in ModifyForms, saved \in BOOLEAN : LegacyModifyUser(form, saved)
    \/ \E saved \in BOOLEAN : RegistroEntrada(EntradaForm("Ana", 1, 8), saved)
    \/ \E saved \in BOOLEAN : RegistroSalida(SalidaForm("Ana", 1, 17), saved)

SpecRevert == Init /\ [][NextRevert]_vars

\* SpecAttendance: entries and exits of two people, one of them under two
\* spellings of the name, on two days.
EntradaForms ==
    {EntradaForm(u, d, 8) : u \in {"Ana", "ANA", "luis"}, d \in Dates}
    \cup {EntradaForm("", 1, 8), EntradaForm("Ana", None, 8)}

SalidaForms ==
    {SalidaForm(u, d, h) : u \in {"Ana", "ANA", "luis"}, d \in Dates, h \in {17, 3}}
    \cup {SalidaForm("Ana", 1, None)}

NextAttendance ==
    \/ \E form \in EntradaForms, saved \in BOOLEAN : RegistroEntrada(form, saved)
    \/ \E form \in SalidaForms, saved \in BOOLEAN : RegistroSalida(form, saved)

SpecAttendance == Init /\ [][NextAttendance]_vars

-----------------------------------------------------------------------------
(* Time clock: src/backend/fastapi/crud/time_entry.py and                  *)
(* src/backend/fastapi/api/v1/endpoints/time_entry.py.  A time entry is a  *)
(* row [id, user_id, entry_type, timestamp]; utcnow is the server clock.   *)

MaxEntries == 3

EntryIds == 1..MaxEntries

\* The rows the query of get_user_clock_status may return first: ORDER BY
\* timestamp DESC leaves the order of equal timestamps to the database.
latest_entries(user_id) ==
    {e \in time_entries :
        /\ e.user_id = user_id
        /\ \A o \in time_entries : o.user_id = user_id => o.timestamp <= e.timestamp}

\* get_user_clock_status: the values the call may return.
get_user_clock_status(user_id) ==
    IF latest_entries(user_id) = {} THEN {"clocked_out"}
    ELSE {IF e.entry_type = "clock_in" THEN "clocked_in" ELSE "clocked_out" :
            e \in latest_entries(user_id)}

\* create_time_entry up to the INSERT: 0 when the entry is accepted, or the
\* status of the HTTPException raised.
create_time_entry_check(user_id, entry_type, current_status) ==
    IF ~\E u \in users : u.id = user_id THEN 404
    ELSE IF ~\E u \in users : u.id = user_id /\ u.is_active THEN 403
    ELSE IF entry_type = "clock_in" /\ current_status = "clocked_in" THEN 400
    ELSE IF entry_type = "clock_out" /\ current_status = "clocked_out" THEN 400
    ELSE 0

\* create_time_entry, the INSERT: timestamp = entry_data.timestamp or utcnow().
\* The server clock has moved on when the next request arrives.
create_time_entry(user_id, entry_type, timestamp) ==
    /\ Cardinality(time_entries) < MaxEntries
    /\ time_entries' = time_entries \cup
            {[id |-> CHOOSE i \in EntryIds :
                        /\ i \notin Ids(time_entries)
                        /\ \A j \in EntryIds \ Ids(time_entries) : i <= j,
              user_id |-> user_id,
              entry_type |-> entry_type,
              timestamp |-> IF timestamp # None THEN timestamp ELSE utcnow]}
    /\ utcnow' = utcnow + 1

\* POST /time-entries/clock : clock_action, for the authenticated staff user.
ClockAction(token, action, timestamp) ==
    LET auth == get_current_user(token)
    IN  /\ IF auth.status # 0 THEN
                /\ Respond("clock", token, auth.status, {})
                /\ UNCHANGED clock_vars
           ELSE \E current_status \in get_user_clock_status(auth.principal.id) :
                LET check == create_time_entry_check(auth.principal.id, action,
                                                     current_status)
                IN  IF check # 0 THEN
                        /\ Respond("clock", token, check, {})
                        /\ UNCHANGED clock_vars
                    ELSE /\ create_time_entry(auth.principal.id, action, timestamp)
                         /\ Respond("clock", token, 200, {})
        /\ UNCHANGED <<sales, nextId, users, admins, branches, reqs, cierre_caja_data,
                       excel_vars>>

\* POST /admin/time-entries/entries/{user_id} : create_time_entry_admin.
CreateTimeEntryAdmin(token, user_id, entry_type, timestamp) ==
    LET auth == get_current_admin(token)
    IN  /\ IF auth.status # 0 THEN
                /\ Respond("create_entry", token, auth.status, {})
                /\ UNCHANGED clock_vars
           ELSE \E current_status \in get_user_clock_status(user_id) :
                LET check == create_time_entry_check(user_id, entry_type, current_status)
                IN  IF check # 0 THEN
                        /\ Respond("create_entry", token, check, {})
                        /\ UNCHANGED clock_vars
                    ELSE /\ create_time_entry(user_id, entry_type, timestamp)
                         /\ Respond("create_entry", token, 200, {})
        /\ UNCHANGED <<sales, nextId, users, admins, branches, reqs, cierre_caja_data,
                       excel_vars>>

-----------------------------------------------------------------------------
(* Staff users: src/backend/fastapi/crud/user.py and                       *)
(* src/backend/fastapi/api/v1/endpoints/user.py                            *)

\* get_user: the row with this id that is not soft-deleted, as a set.
get_user(user_id) == {u \in users : u.id = user_id /\ u.deleted_at = None}

\* delete_user: sets deleted_at and nothing else.
delete_user(user_id) ==
    {IF u.id = user_id /\ u.deleted_at = None THEN [u EXCEPT !.deleted_at = utcnow] ELSE u :
        u \in users}

\* DELETE /admin/users/{user_id} : delete_user_by_id.
DeleteUserById(token, user_id) ==
    LET auth == get_current_admin(token)
    IN  /\ IF auth.status # 0 THEN
                /\ Respond("delete_user", token, auth.status, {})
                /\ UNCHANGED users
           ELSE IF get_user(user_id) = {} THEN
                /\ Respond("delete_user", token, 404, {})
                /\ UNCHANGED users
           ELSE /\ users' = delete_user(user_id)
                /\ Respond("delete_user", token, 200, {})
        /\ UNCHANGED <<sales, nextId, admins, branches, reqs, cierre_caja_data,
                       excel_vars, clock_vars>>

MaxUsers == 3
MaxBranches == 3

\* create_user, the INSERT: the foreign key users.branch_id -> branches.id
\* needs a branches row with that id, soft-deleted or not.  The usernames of
\* the registrations are taken to be new ones.
create_user(body) ==
    users \cup {[id |-> 10 + Cardinality(users), is_active |-> body.is_active,
                 branch_id |-> body.branch_id, deleted_at |-> None]}

\* POST /auth/register : register_user with create_user.
RegisterUser(token, body) ==
    LET auth == get_current_admin(token)
    IN  /\ IF auth.status # 0 THEN
                /\ Respond("register", token, auth.status, {})
                /\ UNCHANGED users
           ELSE IF body.branch_id \notin Ids(branches) THEN
                /\ Respond("register", token, 500, {})
                /\ UNCHANGED users
           ELSE /\ Cardinality(users) < MaxUsers
                /\ users' = create_user(body)
                /\ Respond("register", token, 200, {})
        /\ UNCHANGED <<sales, nextId, admins, branches, reqs, cierre_caja_data,
                       excel_vars, clock_vars>>

\* update_user: setattr of every field the body carries.
update_user(user_id, body) ==
    {IF u.id = user_id /\ u.deleted_at = None
        THEN [f \in DOMAIN u |-> IF f \in DOMAIN body THEN body[f] ELSE u[f]]
        ELSE u : u \in users}

\* PUT /admin/users/{user_id} : update_user_by_id.
UpdateUserById(token, user_id, body) ==
    LET auth == get_current_admin(token)
    IN  /\ IF auth.status # 0 THEN
                /\ Respond("update_user", token, auth.status, {})
                /\ UNCHANGED users
           ELSE IF get_user(user_id) = {} THEN
                /\ Respond("update_user", token, 404, {})
                /\ UNCHANGED users
           ELSE IF Get(body, "branch_id") # None /\ body.branch_id \notin Ids(branches) THEN
                /\ Respond("update_user", token, 500, {})
                /\ UNCHANGED users
           ELSE /\ users' = update_user(user_id, body)
                /\ Respond("update_user", token, 200, {})
        /\ UNCHANGED <<sales, nextId, admins, branches, reqs, cierre_caja_data,
                       excel_vars, clock_vars>>

-----------------------------------------------------------------------------
(* Branches: src/backend/fastapi/crud/branch.py and                        *)
(* src/backend/fastapi/api/v1/endpoints/branch.py                          *)

\* get_branch: the row with this id that is not soft-deleted, as a set.
get_branch(branch_id) == {b \in branches : b.id = branch_id /\ b.deleted_at = None}

\* get_branch_by_name: the rows with this name that are not soft-deleted.
get_branch_by_name(name) == {b \in branches : b.name = name /\ b.deleted_at = None}

\* Branch.name is declared unique=True: the index spans every row of the
\* table, the soft-deleted ones included.
name_is_unique(name, branch_id) ==
    ~\E b \in branches : b.name = name /\ b.id # branch_id

\* create_branch: 0 with the table after the INSERT, or the HTTP status of the
\* HTTPException raised, or 500 for the IntegrityError of the commit.
create_branch(name) ==
    IF get_branch_by_name(name) # {} THEN [status |-> 409, table |-> branches]
    ELSE IF ~name_is_unique(name, None) THEN [status |-> 500, table |-> branches]
    ELSE [status |-> 0,
          table |-> branches \cup {[id |-> 20 + Cardinality(branches), name |-> name,
                                    deleted_at |-> None]}]

\* POST /admin/branches/ : create_new_branch.
CreateNewBranch(token, name) ==
    LET auth == get_current_admin(token)
        created == create_branch(name)
    IN  /\ IF auth.status # 0 THEN
                /\ Respond("create_branch", token, auth.status, {})
                /\ UNCHANGED branches
           ELSE IF created.status # 0 THEN
                /\ Respond("create_branch", token, created.status, {})
                /\ UNCHANGED branches
           ELSE /\ Cardinality(branches) < MaxBranches
                /\ branches' = created.table
                /\ Respond("create_branch", token, 200, {})
        /\ UNCHANGED <<sales, nextId, users, admins, reqs, cierre_caja_data,
                       excel_vars, clock_vars>>

\* update_branch, as create_branch.
update_branch(branch_id, name) ==
    IF get_branch(branch_id) = {} THEN [status |-> 404, table |-> branches]
    ELSE IF /\ \E b \in get_branch(branch_id) : b.name # name
            /\ get_branch_by_name(name) # {}
        THEN [status |-> 409, table |-> branches]
    ELSE IF ~name_is_unique(name, branch_id) THEN [status |-> 500, table |-> branches]
    ELSE [status |-> 0,
          table |-> {IF b.id = branch_id THEN [b EXCEPT !.name = name] ELSE b :
                        b \in branches}]

\* PUT /admin/branches/{branch_id} : update_branch_by_id.
UpdateBranchById(token, branch_id, name) ==
    LET auth == get_current_admin(token)
        updated == update_branch(branch_id, name)
    IN  /\ IF auth.status # 0 THEN
                /\ Respond("update_branch", token, auth.status, {})
                /\ UNCHANGED branches
           ELSE IF updated.status # 0 THEN
                /\ Respond("update_branch", token, updated.status, {})
                /\ UNCHANGED branches
           ELSE /\ branches' = updated.table
                /\ Respond("update_branch", token, 200, {})
        /\ UNCHANGED <<sales, nextId, users, admins, reqs, cierre_caja_data,
                       excel_vars, clock_vars>>

\* delete_branch: refused while a non-deleted user is assigned to the branch.
delete_branch(branch_id) ==
    IF get_branch(branch_id) = {} THEN [status |-> 404, table |-> branches]
    ELSE IF \E u \in users : u.branch_id = branch_id /\ u.deleted_at = None
        THEN [status |-> 409, table |-> branches]
    ELSE [status |-> 0,
          table |-> {IF b.id = branch_id THEN [b EXCEPT !.deleted_at = utcnow] ELSE b :
                        b \in branches}]

\* DELETE /admin/branches/{branch_id} : delete_branch_by_id.
DeleteBranchById(token, branch_id) ==
    LET auth == get_current_admin(token)
        deleted == delete_branch(branch_id)
    IN  /\ IF auth.status # 0 THEN
                /\ Respond("delete_branch", token, auth.status, {})
                /\ UNCHANGED branches
           ELSE IF deleted.status # 0 THEN
                /\ Respond("delete_branch", token, deleted.status, {})
                /\ UNCHANGED branches
           ELSE /\ branches' = deleted.table
                /\ Respond("delete_branch", token, 200, {})
        /\ UNCHANGED <<sales, nextId, users, admins, reqs, cierre_caja_data,
                       excel_vars, clock_vars>>

BranchNames == {"Centro", "Norte"}
OrgTokens == {AdminToken, UserToken(1)}
OrgBranchIds == Ids(branches) \cup {MissingId}

RegisterInputs == {[branch_id |-> b, is_active |-> TRUE] : b \in OrgBranchIds}

UserUpdateInputs == {[branch_id |-> b] : b \in Ids(branches)} \cup {[is_active |-> FALSE]}

NextOrg ==
    \/ \E t \in OrgTokens, name \in BranchNames : CreateNewBranch(t, name)
    \/ \E b \in {2, MissingId} : UpdateBranchById(AdminToken, b, "Norte")
    \/ \E b \in OrgBranchIds : DeleteBranchById(AdminToken, b)
    \/ \E body \in RegisterInputs : RegisterUser(AdminToken, body)
    \/ \E i \in {1, MissingId}, body \in UserUpdateInputs :
            UpdateUserById(AdminToken, i, body)
    \/ \E i \in UserIds : DeleteUserById(AdminToken, i)

SpecOrg == Init /\ [][NextOrg]_vars

ClockTokens == {UserToken(1), AdminToken}
ClockActions == {"clock_in", "clock_out"}
\* No timestamp (the server clock is used), or one the caller chose.
ClockTimestamps == {None, 1, 2}

NextClock ==
    \/ \E t \in ClockTokens, a \in ClockActions, ts \in ClockTimestamps :
            ClockAction(t, a, ts)
    \/ \E t \in {AdminToken}, i \in {2, MissingId}, a \in ClockActions :
            CreateTimeEntryAdmin(t, i, a, None)
    \/ \E t \in {AdminToken, UserToken(1)}, i \in UserIds : DeleteUserById(t, i)
    \/ CreateSalesRecord(UserToken(1), Key(1, 1, 1, 1) @@ RawBalanced)
    \/ ListSalesRecords(UserToken(1))

SpecClock == Init /\ [][NextClock]_vars

-----------------------------------------------------------------------------
(* Claims *)

SameClosure(s, t) ==
    /\ s.closure_date = t.closure_date
    /\ s.closure_number = t.closure_number
    /\ s.branch_id = t.branch_id

\* C1: after any sequence of create, update and delete operations no two
\* stored closures share (closure_date, closure_number, branch).
C1_UniqueClosure ==
    \A s \in sales, t \in sales : s.id # t.id => ~SameClosure(s, t)

\* Two closures are stored that differ only in the branch, and the last
\* operation was an amendment that was accepted.
C1_Witness ==
    /\ resp.op = "update" /\ resp.status = 200
    /\ \E s \in sales, t \in sales :
        /\ s.id # t.id
        /\ s.closure_date = t.closure_date
        /\ s.closure_number = t.closure_number
        /\ s.branch_id # t.branch_id

\* The request is well-formed and comes from a caller allowed to make it.
CreateAdmissible(t, d) ==
    /\ get_current_admin_or_user(t).status = 0
    /\ SalesCreate(d)
    /\ \E u \in users : u.id = d.worker_id
    /\ d.branch_id \in Ids(branches)

UpdateAdmissible(t, i, u) ==
    /\ get_current_admin(t).status = 0
    /\ SalesUpdate(u)
    /\ get_sales(sales, i) # {}
    /\ Get(u, "worker_id") # None => \E w \in users : w.id = u.worker_id
    /\ Get(u, "branch_id") # None => u.branch_id \in Ids(branches)

\* The closure the row i would be after the amendment u.
Amended(i, u) ==
    LET row == CHOOSE s \in sales : s.id = i
    IN  [f \in {"id", "closure_date", "closure_number", "branch_id"} |->
            IF f \in DOMAIN u THEN u[f] ELSE row[f]]

\* C6: a create or update that would give a closure the (branch, date, number)
\* of a different stored record is answered 409 and leaves every stored
\* record as it was.
C6_ConflictRejected ==
    [][ /\ resp'.op = "create" =>
            \A d \in CreateInputs :
                (resp'.status = 409 /\ sales' = sales)
                \/ ~( /\ CreateAdmissible(resp'.caller, d)
                  /\ \E s \in sales : SameClosure(s, d)
                  /\ CreateSalesRecord(resp'.caller, d) )
        /\ resp'.op = "update" =>
            \A i \in TargetIds, u \in UpdateInputs :
                (resp'.status = 409 /\ sales' = sales)
                \/ ~( /\ UpdateAdmissible(resp'.caller, i, u)
                  /\ \E s \in sales : s.id # i /\ SameClosure(s, Amended(i, u))
                  /\ UpdateSalesRecord(resp'.caller, i, u) )
      ]_vars

\* An amendment was refused with 409 while two closures are stored.
C6_Witness ==
    /\ resp.op = "update" /\ resp.status = 409
    /\ Cardinality(sales) = 2

\* C8: a create naming a missing worker or branch, and an update or delete
\* naming a missing closure, are answered 404 and leave the store unchanged.
C8_NotFound ==
    [][ /\ resp'.op = "create" =>
            \A d \in CreateInputs :
                (resp'.status = 404 /\ sales' = sales)
                \/ ~( /\ get_current_admin_or_user(resp'.caller).status = 0
                  /\ SalesCreate(d)
                  /\ (d.worker_id \notin UserIds \/ d.branch_id \notin BranchIds)
                  /\ CreateSalesRecord(resp'.caller, d) )
        /\ resp'.op = "update" =>
            \A i \in TargetIds, u \in UpdateInputs :
                (resp'.status = 404 /\ sales' = sales)
                \/ ~( /\ get_current_admin(resp'.caller).status = 0
                  /\ SalesUpdate(u)
                  /\ \A s \in sales : s.id # i
                  /\ UpdateSalesRecord(resp'.caller, i, u) )
        /\ resp'.op = "delete" =>
            \A i \in TargetIds :
                (resp'.status = 404 /\ sales' = sales)
                \/ ~( /\ get_current_admin(resp'.caller).status = 0
                  /\ \A s \in sales : s.id # i
                  /\ DeleteSalesRecord(resp'.caller, i) )
      ]_vars

\* A create naming a missing branch was answered 404 while a closure is stored.
C8_Witness ==
    /\ resp.op = "create" /\ resp.status = 404
    /\ sales # {}

\* C2: two concurrent create requests for the same (branch, date, number):
\* exactly one is answered 201 and the other 409, whatever the interleaving.
C2_ExactlyOneCreateWins ==
    \A p \in Procs, q \in Procs :
        ( /\ p # q
          /\ reqs[p].pc = "done" /\ reqs[q].pc = "done"
          /\ reqs[p].status \in {201, 409} /\ reqs[q].status \in {201, 409}
          /\ SameClosure(reqs[p].data, reqs[q].data) )
        => {reqs[p].status, reqs[q].status} = {201, 409}

\* The formulas of the specification for a row's derived fields.
SpecCardTotal(s) == s.card_kiwi + s.transfer_amt - s.card_refund
SpecCashTotal(s) == s.cash_amt - s.cash_refund
SpecDiscrepancy(s) == (SpecCardTotal(s) + SpecCashTotal(s)) - s.sales_total
SpecAvgSale(s) ==
    IF s.payments_nbr > 0 THEN NumericScale2(s.sales_total, s.payments_nbr) ELSE 0

\* C3: after every successful create or update the stored card_total is
\* card_kiwi + transfer_amt - card_refund; card_itpv does not contribute.
C3_CardTotalExcludesItpv ==
    \A s \in sales : s.card_total = s.card_kiwi + s.transfer_amt - s.card_refund

\* C4: after any sequence of creates and amendments, the six derived fields of
\* every stored closure are the values the formulas give for its raw inputs.
C4_DerivedFieldsCurrent ==
    \A s \in sales :
        /\ s.card_total = SpecCardTotal(s)
        /\ s.cash_total = SpecCashTotal(s)
        /\ s.discrepancy = SpecDiscrepancy(s)
        /\ s.avg_sale = SpecAvgSale(s)
        /\ s.card_kiwi_minus_fee = s.card_kiwi - s.kiwi_fee_total
        /\ s.revenue_total = s.sales_total - s.kiwi_fee_total

\* C5: the stored discrepancy of every accepted closure is
\* (card_kiwi + transfer_amt - card_refund + cash_amt - cash_refund) - sales_total.
C5_DiscrepancyFormula ==
    \A s \in sales :
        s.discrepancy = (s.card_kiwi + s.transfer_amt - s.card_refund
                            + s.cash_amt - s.cash_refund) - s.sales_total

\* The request body carries an amount below 0, a payments count below 0 or a
\* closure number below 1.
MoneyFields == RawFields \ {"payments_nbr"}

OutOfRange(d) ==
    \/ \E f \in MoneyFields \cap DOMAIN d : d[f] < 0
    \/ "payments_nbr" \in DOMAIN d /\ d.payments_nbr < 0
    \/ "closure_number" \in DOMAIN d /\ d.closure_number < 1

\* C7: a create or update whose input has a monetary amount below 0, a
\* payments_nbr below 0 or a closure_number below 1 is answered with a
\* validation error, and nothing is stored or changed.
C7_OutOfRangeRejected ==
    [][ /\ resp'.op = "create" =>
            \A d \in CalcCreateInputs :
                (resp'.status = 422 /\ sales' = sales)
                \/ ~( /\ OutOfRange(d)
                      /\ CreateSalesRecord(UserToken(1), d) )
        /\ resp'.op = "update" =>
            \A i \in SaleIds, u \in CalcUpdateInputs :
                (resp'.status = 422 /\ sales' = sales)
                \/ ~( /\ OutOfRange(u)
                      /\ UpdateSalesRecord(AdminToken, i, u) )
      ]_vars

ReadOps == {"list", "search", "get", "summary"}

\* C9: a caller with the user role never receives, from list, search,
\* get-by-id or summary, a closure whose worker_id is not the caller's id.
C9_UserReadsOwnClosures ==
    (resp.op \in ReadOps /\ resp.caller.role = "user")
        => \A s \in resp.rows : s.worker_id = resp.caller.sub

\* C10: the review_state of a closure changes only in a step that is a
\* successful review action requested by an administrator.
C10_ReviewStateFrame ==
    [][ \A s \in sales, t \in sales' :
            (s.id = t.id /\ s.review_state # t.review_state)
            => ( /\ resp'.op = "review" /\ resp'.status = 200
                 /\ resp'.caller.role = "admin"
                 /\ resp'.caller.sub \in AdminIds )
      ]_vars

\* An approved closure was amended, its derived fields were recomputed, and
\* it is still approved.
C10_Witness ==
    /\ resp.op = "update" /\ resp.status = 200
    /\ \E s \in sales : s.review_state = "approved" /\ s.card_itpv > 0

\* C11: a closure has review_state pending in the state right after the step
\* that created it, by the create operation or by Excel import, whatever the
\* request body or the sheet's row carried.
C11_PendingWhenCreated ==
    [][ \A t \in sales' :
            (\A s \in sales : s.id # t.id) => t.review_state = "pending"
      ]_vars

\* An import of two rows was accepted while the store was empty; both records
\* are pending.
C11_Witness ==
    /\ resp.op = "import" /\ resp.status = 200
    /\ nextId = 2 /\ Cardinality(sales) = 2
    /\ \A s \in sales : s.closure_date = 2 /\ s.review_state = "pending"

\* C12: a review action by an administrator on a closure id that is not stored
\* is answered 404 (not a server error) and changes no record.
C12_ReviewNotFound ==
    [][ resp'.op = "review" =>
            \A i \in TargetIds, r \in ReviewStates :
                (resp'.status = 404 /\ sales' = sales)
                \/ ~( /\ get_current_admin(resp'.caller).status = 0
                      /\ \A s \in sales : s.id # i
                      /\ UpdateSalesReview(resp'.caller, i, r) )
      ]_vars

PrimaryKey(s, order_by) ==
    IF order_by \in {"sales_desc", "sales_asc"} THEN s.sales_total
    ELSE IF order_by = "discrepancy_desc" THEN Abs(s.discrepancy)
    ELSE s.closure_date

\* C14: in a sales listing, under each of the five sort orders, records that
\* tie on the primary sort key come in closure_number-descending order.
C14_TiesByClosureNumberDesc ==
    (resp.op = "search_query" /\ resp.status = 200) =>
        LET rows == resp.rows.body
            order_by == resp.rows.request.order_by
        IN  \A i \in 1..Len(rows), j \in 1..Len(rows) :
                (i < j /\ PrimaryKey(rows[i], order_by) = PrimaryKey(rows[j], order_by))
                    => rows[i].closure_number >= rows[j].closure_number

\* C15: a closure is flagged exactly when abs(discrepancy) > 0.01 in cents:
\* 0.00, 0.01 and -0.01 are not flagged, 0.02 and more are; the has_discrepancy
\* filter of the listing and the discrepancy report select exactly the
\* flagged closures.
C15_DiscrepancyThreshold ==
    /\ \A s \in sales : has_discrepancy(s) <=> Abs(s.discrepancy) >= 2
    /\ (resp.op = "search_query" /\ resp.status = 200
          /\ resp.rows.request.q = Query(None, None, None, "True"))
        => Range(resp.rows.body) = {s \in sales : Abs(s.discrepancy) >= 2}
    /\ (resp.op = "search_query" /\ resp.status = 200
          /\ resp.rows.request.q = Query(None, None, None, "False"))
        => Range(resp.rows.body) = {s \in sales : Abs(s.discrepancy) <= 1}
    /\ (resp.op = "discrepancy_report" /\ resp.status = 200
          /\ resp.rows.request = ReportQuery(None, None, None, None))
        => Range(resp.rows.body.discrepancy_records)
                = {s \in sales : Abs(s.discrepancy) >= 2}

\* The listing with has_discrepancy=true was answered while closures with
\* discrepancies -0.01 and 0.02 are stored: only the second is in the body.
C15_Witness ==
    /\ resp.op = "search_query" /\ resp.status = 200
    /\ resp.rows.request.q = Query(None, None, None, "True")
    /\ \E s \in sales : s.discrepancy = 0 - 1
    /\ \E s \in sales : s.discrepancy = 2
    /\ Len(resp.rows.body) = 1

\* Decimal(str): the amount a string of digits denotes, in cents.
ParseDecimal(t) ==
    (IF t.negative THEN 0 - 1 ELSE 1) * (t.units * 100 + t.hundredths)

\* The sum of the amounts a breakdown maps its keys to.
RECURSIVE SumValues(_, _)
SumValues(map, keys) ==
    IF keys = {} THEN 0
    ELSE LET k == CHOOSE k \in keys : TRUE
         IN  ParseDecimal(map[k]) + SumValues(map, keys \ {k})

\* C16: in a period report without a branch filter the values of by_branch
\* sum exactly to the total_sales of the report's summary.
C16_ByBranchSumsToTotal ==
    (resp.op = "period_report" /\ resp.status = 200 /\ resp.rows.request.branch_id = None)
        => SumValues(resp.rows.body.by_branch, DOMAIN resp.rows.body.by_branch)
                = resp.rows.body.summary.total_sales

\* A report over one day was answered with two branches in by_branch.
C16_Witness ==
    /\ resp.op = "period_report" /\ resp.status = 200
    /\ resp.rows.request.branch_id = None
    /\ resp.rows.request.start_date = resp.rows.request.end_date
    /\ Cardinality(DOMAIN resp.rows.body.by_branch) = 2

\* C18: the average sale of a period summary is total_sales / total_payments
\* over the closures of the period that pass the filters, and 0 when their
\* payments count is 0 (also when there is none); the summary and the period
\* report are never answered with a server error.
C18_PeriodAverageSale ==
    /\ resp.op \in {"summary_data", "period_report"} => resp.status # 500
    /\ (resp.op = "summary_data" /\ resp.status = 200
          /\ resp.rows.request.start_date # None /\ resp.rows.request.end_date # None)
        => LET q == resp.rows.request
               rows == {s \in sales : /\ q.start_date <= s.closure_date
                                      /\ s.closure_date <= q.end_date
                                      /\ (q.branch_id = None \/ s.branch_id = q.branch_id)}
               total_sales == Sum(rows, "sales_total")
               total_payments == Sum(rows, "payments_nbr")
           IN  resp.rows.body.average_sale =
                    IF total_payments = 0 THEN [num |-> 0, den |-> 1]
                    ELSE [num |-> total_sales, den |-> total_payments]

\* A period summary was answered for closures worth 100.00 with no payment
\* counted: the average is 0.
C18_Witness ==
    /\ resp.op = "summary_data" /\ resp.status = 200
    /\ resp.rows.request.start_date # None /\ resp.rows.request.end_date # None
    /\ resp.rows.body.total_payments = 0
    /\ resp.rows.body.total_sales > 0
    /\ resp.rows.body.average_sale = Zero

\* C17: the record list of a discrepancy report holds only closures of the
\* table that the request's filters select and whose discrepancy is more than
\* one cent in magnitude (and at least the minimum when one is given); it has
\* at most 50 records, in descending order of magnitude, and no selected
\* closure outside the list has a larger magnitude than one inside it.
C17_TopDiscrepancies ==
    (resp.op = "discrepancy_report" /\ resp.status = 200) =>
        LET q == resp.rows.request
            recs == resp.rows.body.discrepancy_records
            matching == {s \in sales :
                            /\ Abs(s.discrepancy) > 1
                            /\ (q.min_discrepancy # None => Abs(s.discrepancy) >= q.min_discrepancy)
                            /\ (q.start_date # None => s.closure_date >= q.start_date)
                            /\ (q.end_date # None => s.closure_date <= q.end_date)
                            /\ (q.branch_id # None => s.branch_id = q.branch_id)}
        IN  /\ Range(recs) \subseteq matching
            /\ Len(recs) <= 50
            /\ Cardinality(Range(recs)) = Len(recs)
            /\ Len(recs) = IF Cardinality(matching) <= 50 THEN Cardinality(matching) ELSE 50
            /\ \A i, j \in 1..Len(recs) :
                    i < j => Abs(recs[i].discrepancy) >= Abs(recs[j].discrepancy)
            /\ \A s \in matching \ Range(recs) :
                    \A i \in 1..Len(recs) : Abs(s.discrepancy) <= Abs(recs[i].discrepancy)

\* A report of 50 records that leaves out a selected closure whose magnitude
\* ties with the last record of the list.
C17_Witness ==
    /\ resp.op = "discrepancy_report"
    /\ resp.status = 200
    /\ LET recs == resp.rows.body.discrepancy_records
       IN  /\ Len(recs) = 50
           /\ \E s \in sales :
                /\ s \notin Range(recs)
                /\ Abs(s.discrepancy) = Abs(recs[50].discrepancy)

\* The raw inputs and the derived fields of a closure, by column: of the
\* sales table and of the 'Ventas' sheet.
RawColumns ==
    {"payments_nbr", "sales_total", "card_itpv", "card_refund", "card_kiwi", "transfer_amt",
     "cash_amt", "cash_refund", "kiwi_fee_total"}

DerivedColumns ==
    {"card_total", "cash_total", "discrepancy", "avg_sale", "card_kiwi_minus_fee",
     "revenue_total"}

RawSheetColumns ==
    {"NO. PAGOS", "VENTAS TOTALES", "TARJETA SEGUN ITPV", "DEVOLUCION EN TARJETA",
     "TARJETA/ KIWI", "TRANSFER", "EFECTIVO", "DEVOLUCION EN EFECTIVO", "TOTAL COMISION KIWI"}

DerivedSheetColumns ==
    {"TOTAL TARJETA REAL", "TOTAL EN EFECTIVO REAL", "DIFERENCIA REVISAR", "TICKET PROMEDIO",
     "TOTAL SIN COMISION", "TOTAL DE INGRESOS"}

\* C19: the derived fields stored for a closure are a function of its raw
\* inputs alone: two stored closures with the same raw inputs have the same
\* derived fields, whatever values the callers sent for them.
C19_DerivedFromRawOnly ==
    /\ \A s, t \in sales :
            (\A f \in RawColumns : s[f] = t[f]) => (\A f \in DerivedColumns : s[f] = t[f])
    /\ \A i, j \in 1..Len(cierre_caja_data) :
            (\A f \in RawSheetColumns : cierre_caja_data[i][f] = cierre_caja_data[j][f])
                => (\A f \in DerivedSheetColumns : cierre_caja_data[i][f] = cierre_caja_data[j][f])

\* C20: a closure created with sales_total 1250.50, card_itpv 800.00,
\* card_refund 25.00, card_kiwi 300.00, transfer_amt 50.00, cash_amt 500.00,
\* cash_refund 24.50, kiwi_fee_total 12.50 and 25 payments is stored with
\* card_total 325.00, cash_total 475.50, discrepancy -450.00, avg_sale 50.02,
\* card_kiwi_minus_fee 287.50 and revenue_total 1238.00.
C20_WorkedExample ==
    \A s \in sales :
        ( /\ s.payments_nbr = 25 /\ s.sales_total = 125050
          /\ s.card_itpv = 80000 /\ s.card_refund = 2500
          /\ s.card_kiwi = 30000 /\ s.transfer_amt = 5000
          /\ s.cash_amt = 50000 /\ s.cash_refund = 2450
          /\ s.kiwi_fee_total = 1250 )
        => /\ s.card_total = 32500
           /\ s.cash_total = 47550
           /\ s.discrepancy = 0 - 45000
           /\ s.avg_sale = 5002
           /\ s.card_kiwi_minus_fee = 28750
           /\ s.revenue_total = 123800

\* C21: the stored avg_sale of every accepted closure is sales_total divided
\* by payments_nbr, to the cent, when payments_nbr > 0, and 0 when
\* payments_nbr = 0; payments_nbr is never below 0, so no division fails.
C21_AvgSale ==
    \A s \in sales :
        /\ s.payments_nbr >= 0
        /\ s.payments_nbr = 0 => s.avg_sale = 0
        /\ s.payments_nbr > 0 =>
                2 * Abs(s.avg_sale * s.payments_nbr - s.sales_total) <= s.payments_nbr

\* Stored: a closure without payments, and one whose quotient has more than
\* two decimal places.
C21_Witness ==
    /\ \E s \in sales : s.payments_nbr = 0 /\ s.sales_total > 0
    /\ \E s \in sales :
            /\ s.payments_nbr > 0
            /\ s.avg_sale * s.payments_nbr # s.sales_total
    /\ resp.op = "create"
    /\ resp.status = 201

\* C22: an import stores either every row of the file that passed the
\* validation of the rows, each as one new closure, or none of them; the
\* closures stored before the import stay as they were.
C22_ImportAllOrNothing ==
    [][ resp'.op = "import" =>
            \A t \in WriteTokens, file \in ImportFiles :
                \/ ~ImportSalesFromExcel(t, file)
                \/ sales' = sales
                \/ LET passed == {i \in 1..Len(file) : ~import_row_errors(file[i])}
                   IN  /\ sales \subseteq sales'
                       /\ Cardinality(sales' \ sales) = Cardinality(passed)
                       /\ \A i \in passed : \E s \in sales' \ sales :
                                \A f \in SalesFields : s[f] = file[i][f]
      ]_vars

\* An import whose insert failed (the answer is 500) after a closure had been
\* stored.
C22_Witness ==
    /\ resp.op = "import"
    /\ resp.status = 500
    /\ sales # {}

\* C23: after a successful import no two stored closures share branch, closure
\* date and closure number.
C23_ImportUniqueClosure ==
    (resp.op = "import" /\ resp.status = 200) =>
        \A s, t \in sales :
            ( /\ s.branch_id = t.branch_id
              /\ s.closure_date = t.closure_date
              /\ s.closure_number = t.closure_number ) => s = t

\* C25: when a live run of the card-total correction script has ended, every
\* sales record has card_total = card_kiwi + transfer_amt - card_refund and
\* discrepancy = card_total + cash_amt - cash_refund - sales_total.
C25_FixedCardTotals ==
    resp.op = "fix_card_totals" =>
        \A s \in sales :
            /\ s.card_total = s.card_kiwi + s.transfer_amt - s.card_refund
            /\ s.discrepancy = s.card_total + s.cash_amt - s.cash_refund - s.sales_total

\* C24: when a delete-user, modify-user, closure or exit request is answered
\* with the failure to write the workbook, the tables held in memory are what
\* they were before the request.
C24_FailedSaveReverted ==
    [][ ( /\ resp'.op \in {"delete_user", "modify_user", "cierre_caja", "registro_salida"}
          /\ resp'.rows.message \in {"revertidos", "Excel", "guardar"} )
        => ( /\ user_data' = user_data
             /\ cierre_caja_data' = cierre_caja_data
             /\ registro_data' = registro_data )
      ]_vars

\* The rows of the attendance log of one person (under any letter case of
\* the name) on one day that have no exit time.
OpenShifts(data, usuario, dia) ==
    {i \in 1..Len(data) :
        /\ Upper(data[i].Usuario) = Upper(usuario)
        /\ data[i].Dia = dia
        /\ data[i].HoraSalida = Blank}

\* C28: after every registration each person has at most one open shift per
\* day, and an exit registration that succeeds closes the one open shift of
\* the person who sent it and changes no other row.
C28_OneOpenShift ==
    [][ /\ \A i \in 1..Len(registro_data') :
            Cardinality(OpenShifts(registro_data', registro_data'[i].Usuario,
                                   registro_data'[i].Dia)) <= 1
        /\ (resp'.op = "registro_salida" /\ resp'.rows.success) =>
                /\ Len(registro_data') = Len(registro_data)
                /\ \E i \in 1..Len(registro_data) :
                        /\ registro_data[i].HoraSalida = Blank
                        /\ registro_data'[i].HoraSalida # Blank
                        /\ OpenShifts(registro_data', registro_data[i].Usuario,
                                      registro_data[i].Dia) = {}
                        /\ \A j \in 1..Len(registro_data) :
                                j # i => registro_data'[j] = registro_data[j]
      ]_vars

\* The time entries of one user.
UserEntries(user_id) == {e \in time_entries : e.user_id = user_id}

\* The ways to list a set of time entries in timestamp order.
TimestampOrders(entries) ==
    {f \in [1..Cardinality(entries) -> entries] :
        /\ \A i, j \in DOMAIN f : i # j => f[i] # f[j]
        /\ \A i, j \in DOMAIN f : i < j => f[i].timestamp <= f[j].timestamp}

\* C26: the time entries of every user, in timestamp order, alternate
\* clock_in, clock_out, clock_in, ... and start with clock_in.
C26_EntriesAlternate ==
    \A user_id \in UserIds :
        \E f \in TimestampOrders(UserEntries(user_id)) :
            \A i \in DOMAIN f :
                f[i].entry_type = IF i % 2 = 1 THEN "clock_in" ELSE "clock_out"

\* C27: a request sent with the token of a user who is soft-deleted when it
\* arrives is rejected (401 or 403), whatever it asks for.
C27_DeletedUserRejected ==
    [][ (/\ resp' # resp
         /\ resp'.caller.role = "user"
         /\ \E u \in users : u.id = resp'.caller.sub /\ u.deleted_at # None)
            => resp'.status \in {401, 403}
      ]_vars

\* C29: no user that is not soft-deleted is assigned to a soft-deleted branch.
C29_NoUserInDeletedBranch ==
    \A u \in users :
        u.deleted_at = None =>
            ~\E b \in branches : b.id = u.branch_id /\ b.deleted_at # None

\* C30: an administrator's branch create is answered 409 when a non-deleted
\* branch has the name, and otherwise succeeds and leaves a non-deleted
\* branch of that name, whether or not a soft-deleted branch has it.
C30_DeletedNameNotReserved ==
    [][ \A name \in BranchNames :
            CreateNewBranch(AdminToken, name) =>
                IF \E b \in branches : b.name = name /\ b.deleted_at = None
                    THEN resp'.status = 409
                    ELSE /\ resp'.status = 200
                         /\ \E b \in branches' : b.name = name /\ b.deleted_at = None
      ]_vars

====
